---- MODULE Spec2Model ----
(***************************************************************************)
(* Model of the Flask backend of the AI student query assistant            *)
(* (src/backend_api.py): the per-IP rate limiter, the POST /query handler  *)
(* and the resolver get_ai_response with its in-process response cache;    *)
(* and of the answer cache of the desktop client                           *)
(* (src/database_manager.py): the table qa_cache behind get_cached_answer, *)
(* cache_qa_pair and clean_old_entries, and the connection they share.     *)
(*                                                                         *)
(* Strings are sequences of atoms.  The atom " " is whitespace, "A" and    *)
(* "B" are upper-case letters whose lower case is "a" and "b"; "Eacute" is *)
(* an upper-case letter outside ASCII and "eacute" its lower case; every   *)
(* other atom is an opaque non-blank piece of text ("%" and "_" are the    *)
(* characters of these names).  A string literal of the                    *)
(* program is the one-atom string holding the literal.                     *)
(***************************************************************************)
EXTENDS Integers, Sequences, FiniteSets, TLC

----------------------------------------------------------------------------
(* Program constants *)

RATE_LIMIT_WINDOW == 60

MAX_REQUESTS_PER_WINDOW == 10

CACHE_TTL == 3600

MAX_QUESTION_LEN == 500

MAX_RETRY == 2

models_to_try == <<"gemini-1.5-pro", "gemini-pro">>

Lit(msg) == <<msg>>

FALLBACK_RESPONSES ==
    { Lit("I'm sorry, I don't have that information at the moment."),
      Lit("I couldn't process your question. Could you try rephrasing it?"),
      Lit("There seems to be a technical issue. Please try again later."),
      Lit("I'm having trouble connecting to my knowledge base. Please try again shortly."),
      Lit("I'm currently experiencing high demand. Please try your question again in a moment.") }

\* src/database_manager.py

\* line 39: access_count INTEGER DEFAULT 1
DEFAULT_ACCESS_COUNT == 1

\* line 112: fuzzy matching only for questions of more words than this
FUZZY_MIN_WORDS == 3

\* line 118: LIMIT 5
FUZZY_LIMIT == 5

\* line 200: seconds in max_age_days days
SECONDS_PER_DAY == 86400

\* line 217: the buffer added to the number of rows over max_entries
EVICT_MARGIN == 100

\* src/ai_student_query_assistant.py and src/main.py

\* line 218 (main.py line 106): the longest query sent
MAX_QUERY_LEN == 500

\* line 223
NOT_CONNECTED == Lit("Cannot connect to the server. Please make sure the backend is running.")

\* line 254
CANNOT_CONNECT ==
    Lit("I can't connect to the server right now. Please make sure the backend is running and try again.")

\* line 281
INVALID_RESPONSE ==
    Lit("The server response was invalid. Please check if the backend is running correctly.")

\* main.py lines 118 and 156
CACHE_MARK == "(Retrieved from cache)"

----------------------------------------------------------------------------
(* Bounds of the model *)

\* requests handled in a run of Spec
MaxRequests == 2

\* requests handled in a run of SpecLimiter
MaxLimiterRequests == 12

\* clock advances between requests in a run
MaxTicks == 2

\* calls of the DatabaseManager in a run of SpecCache or SpecFaults
MaxDbOps == 3

\* calls of the DatabaseManager in a run of SpecFuzzy
MaxFuzzyOps == 4

\* rows ever inserted in a run of SpecCache, SpecFaults or SpecFuzzy
MaxDbRows == 3

\* rows inserted in a run of SpecEvict beyond the first EVICT_MARGIN
MaxExtraRows == 3

\* clock advances in a run of SpecEvict
MaxEvictTicks == 1

\* calls made by the threads in a run of SpecThreads
MaxThreadCalls == 3

\* questions submitted in a run of SpecClient
MaxQueries == 2

\* steps of the typing animation between two questions
MaxTypingDots == 2

----------------------------------------------------------------------------
(* str.lower() and str.strip() *)

IsSpace(ch) == ch \in {" ", "\n"}

LowerChar(ch) ==
    IF ch = "A" THEN "a"
    ELSE IF ch = "B" THEN "b"
    ELSE IF ch = "Eacute" THEN "eacute"
    ELSE ch

Lower(s) == [i \in 1..Len(s) |-> LowerChar(s[i])]

RECURSIVE LStrip(_)
LStrip(s) == IF Len(s) > 0 /\ IsSpace(s[1]) THEN LStrip(SubSeq(s, 2, Len(s))) ELSE s

RECURSIVE RStrip(_)
RStrip(s) == IF Len(s) > 0 /\ IsSpace(s[Len(s)]) THEN RStrip(SubSeq(s, 1, Len(s) - 1)) ELSE s

Strip(s) == RStrip(LStrip(s))

Rep(n, ch) == [i \in 1..n |-> ch]

----------------------------------------------------------------------------
(* Inputs *)

Clients == {"1.2.3.4", "5.6.7.8"}

\* a JSON value found under the key "question"
JString(s) == [t |-> "string", s |-> s]

JOther(t) == [t |-> t, s |-> <<>>]

\* What request.get_json() yields, as far as query() looks at it: the Python
\* type of the value, its truth value, whether `"question" in data` holds, and
\* the value data.get("question", "") returns.
Body(t, truthy, hasQ, q) == [t |-> t, truthy |-> truthy, hasQ |-> hasQ, q |-> q]

QuestionBody(s) == Body("dict", TRUE, TRUE, JString(s))

ValidQuestions ==
    { <<"a">>, <<" ", "A", " ">>,
      <<" ">> \o Rep(MAX_QUESTION_LEN, "a") \o <<" ">> }

InvalidQuestions == { <<>>, <<" ">>, <<" ", " ">>, Rep(MAX_QUESTION_LEN + 1, "a") }

ValidBodies == { QuestionBody(s) : s \in ValidQuestions }

InvalidBodies ==
    { QuestionBody(s) : s \in InvalidQuestions } \cup
    { Body("unparseable", FALSE, FALSE, JOther("none")),  \* get_json() raises
      Body("NoneType", FALSE, FALSE, JOther("none")),     \* null, or no JSON body
      Body("dict", FALSE, FALSE, JString(<<>>)),           \* {}
      Body("dict", TRUE, FALSE, JString(<<>>)),            \* {"other": 1}
      Body("dict", TRUE, TRUE, JOther("int")),             \* {"question": 5}
      Body("dict", TRUE, TRUE, JOther("NoneType")),        \* {"question": null}
      Body("dict", TRUE, TRUE, JOther("list")),            \* {"question": ["a"]}
      Body("list", FALSE, FALSE, JOther("none")),          \* []
      Body("list", TRUE, FALSE, JOther("none")),           \* [1]
      Body("list", TRUE, TRUE, JOther("none")),            \* ["question"]
      Body("str", FALSE, FALSE, JOther("none")),           \* ""
      Body("str", TRUE, FALSE, JOther("none")),            \* "hello"
      Body("str", TRUE, TRUE, JOther("none")),             \* "my question"
      Body("int", FALSE, FALSE, JOther("none")),           \* 0
      Body("int", TRUE, FALSE, JOther("none")),            \* 5
      Body("bool", TRUE, FALSE, JOther("none")) }          \* true

Bodies == ValidBodies \cup InvalidBodies

NoBody == Body("NoneType", FALSE, FALSE, JOther("none"))

\* texts an external model may return in response.text
Texts == { <<>>, <<" ">>, <<" ", "x", " ">> }

\* model.generate_content: raises, returns a response without text, or
\* returns a response with text
Outcomes ==
    { [kind |-> "raise", text |-> <<>>], [kind |-> "notext", text |-> <<>>] } \cup
    { [kind |-> "text", text |-> t] : t \in Texts }

NoOutcome == [kind |-> "none", text |-> <<>>]

\* str(e) of an exception caught by query()
ExcMessages == { <<>>, Lit("internal error") }

\* the bodies and the model outcomes of a run of SpecLimiter
LimiterBodies == { QuestionBody(<<"a">>), QuestionBody(<<" ">>) }

LimiterOutcomes == { [kind |-> "text", text |-> <<"x">>] }

\* time.time() advances by one of these between two requests
TickSteps == {1, 3599}

\* questions passed to the DatabaseManager in a run of SpecCache
CacheQuestions == { <<"a">>, <<"A">>, <<" ", "a">>, <<"Eacute">> }

\* answers passed to cache_qa_pair
Answers == { <<"x">>, <<"y">> }

\* the statement of a call that raises; 0: none does
FailPoints == 0..3

\* questions and max_entries passed in a run of SpecFaults
FaultQuestions == { <<"a">>, <<"Eacute">> }

FaultBudgets == {0, 1000}

\* max_age_days and max_entries passed to clean_old_entries in SpecCache
AgeDays == {0, 1}

Budgets == {1, 1000}

\* time.time() advances by one of these between two calls
DbTickSteps == {1, 86400}

\* questions, rows stored a second time and max_entries in a run of SpecEvict
BulkQuestion(n) == Rep(n, "a")

PopularRows == {1, EVICT_MARGIN + 1}

EvictBudgets == {EVICT_MARGIN, EVICT_MARGIN + 1, EVICT_MARGIN + 2}

\* questions of SpecFuzzy: the stored ones, and the ones looked up
Words(u, v, w, x) == <<u, " ", v, " ", w, " ", x>>

StoredQuestions ==
    { Words("A", "x", "y", "z"), Words("A", "x", "u", "v"), Words("_", "x", "u", "v") }

FuzzyQuestions ==
    StoredQuestions \cup
    { <<"a", " ", "x", " ", "y">>, Words("u", "v", "y", "z"), Words("a", "x", "q", "r"),
      Words("_", "x", "q", "r"), Words("q", "r", "s", "t") }

\* questions stored and questions looked up in a run of SpecCounts
CountQuestions ==
    { <<"a">>, Words("A", "x", "y", "z"), <<" ">> \o Words("A", "x", "y", "z") }

CountLookups == CountQuestions \cup { Words("a", "x", "q", "r") }

LimiterTickSteps == {1, 59}

\* the threads of the server that handle requests at the same time, the
\* client they serve, the requests of a run of SpecRace and its clock steps
Workers == {"w1", "w2"}

RaceClient == "1.2.3.4"

MaxRaceRequests == 11

RaceTickSteps == {30}

\* the text of the entry when the user submits it
ClientTexts == { <<"a">>, <<" ", "b">>, <<" ">> }

\* answers of the backend: one line, and two paragraphs
BackendAnswers == { <<"x">>, <<"x", "\n", "\n", "y">> }

\* how requests.post and the reading of its response end: status 200 with an
\* answer, 200 without the key "answer", 200 with a body that is not JSON,
\* another status with or without a JSON body, ConnectionError, another
\* RequestException (a timeout), any other exception
Http(kind, a, detail) == [kind |-> kind, answer |-> a, detail |-> detail]

NoHttp == Http("none", <<>>, <<>>)

HttpOutcomes ==
    { Http("ok", a, <<>>) : a \in BackendAnswers } \cup
    { Http("ok_no_answer", <<>>, <<>>),
      Http("ok_not_json", <<>>, <<>>),
      Http("status", <<>>, Lit("Rate limit exceeded")),
      Http("status_not_json", <<>>, <<>>),
      Http("connection_error", <<>>, <<>>),
      Http("timeout", <<>>, <<>>),
      Http("exception", <<>>, <<>>) }

\* the outcomes in a run of SpecClient
CacheOutcomes ==
    { Http("ok", a, <<>>) : a \in BackendAnswers } \cup
    { Http("connection_error", <<>>, <<>>) }

\* lines 250-286: the messages send_request may show for an outcome; the
\* exception response.json() raises for a body that is not JSON is a
\* RequestException or a json.JSONDecodeError, by the version of requests
Shown(o) ==
    IF o.kind = "ok" THEN { o.answer }
    ELSE IF o.kind = "ok_no_answer" THEN { Lit("No response") }
    ELSE IF o.kind = "ok_not_json"
         THEN { <<"Connection error - ", "Expecting value">>, INVALID_RESPONSE }
    ELSE IF o.kind = "status"
         THEN { <<"Error: ">> \o o.detail \o <<" (Status code: ", "429", ")">> }
    ELSE IF o.kind = "status_not_json"
         THEN { <<"Error: Server returned status code ", "502">> }
    ELSE IF o.kind = "connection_error" THEN { CANNOT_CONNECT }
    ELSE IF o.kind = "timeout" THEN { <<"Connection error - ", "Read timed out.">> }
    ELSE { <<"An unexpected error occurred: ", "error">> }

----------------------------------------------------------------------------
(* State *)

VARIABLES
    now,             \* time.time(), in seconds
    rate_limits,     \* client ip -> [count, window_start]
    response_cache,  \* cache_key -> [response, timestamp]
    pc,              \* where the request being handled stands
    client_ip,       \* request.remote_addr
    data,            \* request.get_json()
    question,        \* query(): the trimmed question
    retry_count,     \* get_ai_response(): retry_count of the running call
    model_idx,       \* get_ai_response(): index into models_to_try
    answer,          \* what get_ai_response returned
    response,        \* the HTTP response of the request
    ticks,           \* history: clock advances so far
    nreq,            \* history: requests received so far
    ran,             \* history: the parts of the handler this request entered
    calls,           \* history: generate_content calls made for this request
    tried,           \* history: the candidates called in this pass, in order
    last,            \* history: the outcome of the latest call
    via,             \* history: how get_ai_response produced its result
    cache_at_request,   \* history: response_cache when the request arrived
    seen,            \* history: client -> [start, n], the requests of its window
    alone            \* history: client -> rate_limits of the run that holds its requests only

\* rate_limiter.wrapper run by several threads at once
VARIABLES
    wpc,             \* worker -> the part of the wrapper it executes next
    wtime,           \* worker -> current_time
    wbranch,         \* worker -> the branch of lines 55-59 it took
    wobj,            \* worker -> the dict it loaded at line 62
    wcount,          \* worker -> the count it loaded at line 62
    obj,             \* the dict now stored under the client's key
    wreceived,       \* history: requests that entered the wrapper
    wadmitted        \* history: requests the wrapper passed to query()

racevars == <<wpc, wtime, wbranch, wobj, wcount, obj, wreceived, wadmitted>>

\* the desktop client: QueryAssistantApp (src/ai_student_query_assistant.py)
\* as extended by MainApplication (src/main.py)
VARIABLES
    is_connected,    \* self.is_connected
    is_sending,      \* self.is_sending
    button_state,    \* state of self.submit_button
    entry_state,     \* state of self.entry
    content,         \* the text of self.text_area, without its final newline
    typing_dots,     \* self.typing_dots; -1 stands for None
    after_queue,     \* callbacks of root.after that are due, in the order they run
    timers,          \* callbacks of root.after that are not due yet
    spc,             \* where the thread running send_request stands
    squery,          \* the query passed to send_request
    outcome,         \* history: the outcome of the latest requests.post
    nqueries,        \* history: questions submitted so far
    posts,           \* history: requests.post calls of the running send_request
    resets,          \* history: reset_ui_state scheduled by the running send_request
    returned         \* history: <<question, answer>> pairs the backend returned

uivars == <<is_connected, is_sending, button_state, entry_state, content,
            typing_dots, after_queue, timers, spc, squery, outcome, nqueries,
            posts, resets, returned>>

\* DatabaseManager (src/database_manager.py) and the threads that call it
VARIABLES
    qa_cache,        \* the rows of table qa_cache
    next_id,         \* the id AUTOINCREMENT gives the next inserted row
    connection,      \* self.connection: the thread that opened it, or NoThread
    connection_lock, \* self.connection_lock: the thread that holds it, or NoThread
    tpc,             \* thread -> where its call of the DatabaseManager stands
    tcall,           \* thread -> the call it is making
    tsel,            \* thread -> what its SELECT fetched
    db_op,           \* history: the latest call of the DatabaseManager
    db_before,       \* history: qa_cache when that call started
    db_ret,          \* history: what that call returned
    nops             \* history: calls of the DatabaseManager so far

apivars == <<rate_limits, response_cache, pc, client_ip, data, question,
             retry_count, model_idx, answer, response, nreq, ran, calls,
             tried, last, via, cache_at_request, seen, alone, racevars>>

dbvars == <<qa_cache, next_id, connection, connection_lock, tpc, tcall, tsel,
            db_op, db_before, db_ret, nops>>

vars == <<now, rate_limits, response_cache, pc, client_ip, data, question,
          retry_count, model_idx, answer, response, ticks, nreq, ran, calls,
          tried, last, via, cache_at_request, seen, alone, qa_cache, next_id,
          connection, connection_lock, tpc, tcall, tsel, db_op, db_before,
          db_ret, nops, racevars, uivars>>

\* a row of qa_cache as INSERT creates it (lines 175-178, and the column
\* default of line 39)
Row(id, q, a, t) ==
    [id |-> id, question |-> q, answer |-> a, created_at |-> t,
     last_accessed |-> t, access_count |-> DEFAULT_ACCESS_COUNT]

\* cursor.fetchone() found no row
NoRow ==
    [id |-> 0, question |-> <<>>, answer |-> <<>>, created_at |-> 0,
     last_accessed |-> 0, access_count |-> 0]

\* what a call fetched: the row of fetchone(), the count of SELECT COUNT(*)
Fetch(row, total) == [row |-> row, total |-> total]

NoFetch == Fetch(NoRow, 0)

\* a call of get_cached_answer, cache_qa_pair or clean_old_entries; fail is
\* the number of the statement that raises (0: none does), stmts the
\* statements the call executed
Call(op, q, a, days, entries, fail, stmts) ==
    [op |-> op, question |-> q, answer |-> a, days |-> days,
     entries |-> entries, fail |-> fail, stmts |-> stmts]

NoCall == Call("none", <<>>, <<>>, 0, 0, 0, <<>>)

\* the calls the threads make in a run of SpecThreads
ThreadCalls ==
    { Call("lookup", <<"a">>, <<>>, 0, 0, 0, <<>>),
      Call("store", <<"a">>, <<"x">>, 0, 0, 0, <<>>),
      Call("store", <<" ", "a">>, <<"y">>, 0, 0, 0, <<>>),
      Call("evict", <<>>, <<>>, 0, 1, 0, <<>>),
      Call("evict", <<>>, <<>>, 0, 1000, 0, <<>>) }

\* what a call returned
Return(kind, a, n) == [kind |-> kind, answer |-> a, n |-> n]

NoReturn == Return("unset", <<>>, 0)

\* the threads of the process; DatabaseManager() is constructed by the first
Threads == {"main", "worker"}

MainThread == "main"

NoThread == "none"

NoResponse == [status |-> 0, fields |-> {}, answer |-> <<>>, error |-> <<>>, source |-> <<>>]

EmptyMap == [x \in {} |-> 0]

\* add_system_message, lines 204-209 of src/ai_student_query_assistant.py
SystemMessage(m) == <<"System: ">> \o m \o <<"\n", "\n">>

\* lines 143-144 and 389-392: the two messages of a new or cleared chat
Welcome ==
    SystemMessage(Lit("Welcome to the AI Student Query Assistant!")) \o
    SystemMessage(Lit("Type your question and press Enter or click Send."))


Init ==
    /\ now = 0
    /\ rate_limits = EmptyMap
    /\ response_cache = EmptyMap
    /\ pc = "idle"
    /\ client_ip = "1.2.3.4"
    /\ data = NoBody
    /\ question = <<>>
    /\ retry_count = 0
    /\ model_idx = 0
    /\ answer = <<>>
    /\ response = NoResponse
    /\ ticks = 0
    /\ nreq = 0
    /\ ran = {}
    /\ calls = 0
    /\ tried = <<>>
    /\ last = NoOutcome
    /\ via = "none"
    /\ cache_at_request = EmptyMap
    /\ seen = [c \in Clients |-> [start |-> 0, n |-> 0]]
    /\ alone = [c \in Clients |-> EmptyMap]
    /\ wpc = [t \in Workers |-> "idle"]
    /\ wtime = [t \in Workers |-> 0]
    /\ wbranch = [t \in Workers |-> "none"]
    /\ wobj = [t \in Workers |-> 0]
    /\ wcount = [t \in Workers |-> 0]
    /\ obj = 0
    /\ wreceived = 0
    /\ wadmitted = 0
    /\ is_connected = FALSE
    /\ is_sending = FALSE
    /\ button_state = "normal"
    /\ entry_state = "normal"
    /\ content = Welcome
    /\ typing_dots = -1
    /\ after_queue = <<>>
    /\ timers = {}
    /\ spc = "none"
    /\ squery = <<>>
    /\ outcome = NoHttp
    /\ nqueries = 0
    /\ posts = 0
    /\ resets = 0
    /\ returned = {}
    /\ qa_cache = {}
    /\ next_id = 1
    /\ connection = MainThread
    /\ connection_lock = NoThread
    /\ tpc = [t \in Threads |-> "idle"]
    /\ tcall = [t \in Threads |-> NoCall]
    /\ tsel = [t \in Threads |-> NoFetch]
    /\ db_op = NoCall
    /\ db_before = {}
    /\ db_ret = NoReturn
    /\ nops = 0

----------------------------------------------------------------------------
(* rate_limiter.wrapper *)

NewWindow(t) == [count |-> 0, window_start |-> t]

\* mutant: the window is reset only after more than 60 seconds
WindowExpiredStrict(rl, c, t) == t - rl[c].window_start > RATE_LIMIT_WINDOW

WindowExpired(rl, c, t) == t - rl[c].window_start >= RATE_LIMIT_WINDOW

\* mutant: a reset of one client's window resets every window
RefreshEveryone(rl, c, t) ==
    IF c \notin DOMAIN rl
    THEN [x \in DOMAIN rl \cup {c} |-> IF x = c THEN NewWindow(t) ELSE rl[x]]
    ELSE IF WindowExpired(rl, c, t)
         THEN [x \in DOMAIN rl |-> NewWindow(t)]
         ELSE rl

\* lines 55-59: initialise or reset the client's entry
Refresh(rl, c, t) ==
    IF c \notin DOMAIN rl
    THEN [x \in DOMAIN rl \cup {c} |-> IF x = c THEN NewWindow(t) ELSE rl[x]]
    ELSE IF WindowExpired(rl, c, t)
         THEN [rl EXCEPT ![c] = NewWindow(t)]
         ELSE rl

\* mutant: the count stops at the cap
IncrementBelowCap(rl, c) ==
    IF rl[c].count >= MAX_REQUESTS_PER_WINDOW THEN rl
    ELSE [rl EXCEPT ![c].count = @ + 1]

\* line 62
Increment(rl, c) == [rl EXCEPT ![c].count = @ + 1]

\* mutant: the request that reaches the cap is rejected already
ExceededAtCap(rl, c) == rl[c].count >= MAX_REQUESTS_PER_WINDOW

\* line 65
Exceeded(rl, c) == rl[c].count > MAX_REQUESTS_PER_WINDOW

\* lines 64-70
RateLimitResponse ==
    [status |-> 429, fields |-> {"answer", "error"},
     answer |-> Lit("You've sent too many requests. Please wait a moment before trying again."),
     error |-> Lit("Rate limit exceeded"), source |-> <<>>]

\* mutant: the 429 response is built but not returned, and query() runs
WrapperFallsThrough(rl, c) ==
    [pc |-> "query",
     response |-> IF Exceeded(rl, c) THEN RateLimitResponse ELSE NoResponse]

\* lines 65-72: the 429 response, or the call of query()
WrapperResult(rl, c) ==
    IF Exceeded(rl, c)
    THEN [pc |-> "done", response |-> RateLimitResponse]
    ELSE [pc |-> "query", response |-> NoResponse]

\* the window of client c as the specification counts it: the request that
\* finds no window, or arrives 60 seconds or more after the window's start,
\* opens a window and is its first request
SeenAfter(c, t) ==
    IF seen[c].n = 0 \/ t - seen[c].start >= 60
    THEN [start |-> t, n |-> 1]
    ELSE [seen[c] EXCEPT !.n = @ + 1]

\* A request of client c with body b arrives: the wrapper runs (lines 51-72)
\* and either answers 429 or calls query().
Request(c, b) ==
    /\ pc = "idle"
    /\ LET rl == Increment(Refresh(rate_limits, c, now), c) IN
        /\ rate_limits' = rl
        /\ pc' = WrapperResult(rl, c).pc
        /\ response' = WrapperResult(rl, c).response
    /\ client_ip' = c
    /\ data' = b
    /\ question' = <<>>
    /\ retry_count' = 0
    /\ model_idx' = 0
    /\ answer' = <<>>
    /\ nreq' = nreq + 1
    /\ ran' = {"rate_limiter"}
    /\ calls' = 0
    /\ tried' = <<>>
    /\ last' = NoOutcome
    /\ via' = "none"
    /\ cache_at_request' = response_cache
    /\ seen' = [seen EXCEPT ![c] = SeenAfter(c, now)]
    /\ alone' = [alone EXCEPT ![c] = Increment(Refresh(alone[c], c, now), c)]
    /\ UNCHANGED <<now, response_cache, ticks>>
    /\ UNCHANGED dbvars
    /\ UNCHANGED uivars
    /\ UNCHANGED racevars

\* time passes between two requests
Tick(d) ==
    /\ pc = "idle"
    /\ ticks < MaxTicks
    /\ now' = now + d
    /\ ticks' = ticks + 1
    /\ UNCHANGED <<rate_limits, response_cache, pc, client_ip, data, question,
                   retry_count, model_idx, answer, response, nreq, ran, calls,
                   tried, last, via, cache_at_request, seen, alone>>
    /\ UNCHANGED dbvars
    /\ UNCHANGED uivars
    /\ UNCHANGED racevars

----------------------------------------------------------------------------
(* query(): validation, lines 139-158 and 180-185 *)

MissingData ==
    [status |-> 400, fields |-> {"error", "answer"},
     answer |-> Lit("I couldn't understand your request. Please try again."),
     error |-> Lit("Missing request data"), source |-> <<>>]

MissingQuestion ==
    [status |-> 400, fields |-> {"error", "answer"},
     answer |-> Lit("I couldn't find your question. Please try again."),
     error |-> Lit("Missing question in request"), source |-> <<>>]

EmptyQuestion ==
    [status |-> 400, fields |-> {"error", "answer"},
     answer |-> Lit("Please type a question first."),
     error |-> Lit("Empty question"), source |-> <<>>]

QuestionTooLong ==
    [status |-> 400, fields |-> {"error", "answer"},
     answer |-> Lit("Your question is too long. Please keep it under 500 characters."),
     error |-> Lit("Question too long (max 500 characters)"), source |-> <<>>]

\* lines 180-185: the handler of any exception raised in the body of query()
ServerError ==
    [status |-> 200, fields |-> {"answer", "error"},
     answer |-> Lit("I ran into an unexpected issue. Please try again later."),
     error |-> Lit("Server error"), source |-> <<>>]

Raised == [kind |-> "raise", question |-> <<>>, response |-> ServerError]

Rejected(r) == [kind |-> "reject", question |-> <<>>, response |-> r]

Accepted(q) == [kind |-> "ok", question |-> q, response |-> NoResponse]

TooLong(q) == Len(q) > MAX_QUESTION_LEN

\* lines 140-158, statement by statement; a statement that raises ends in the
\* handler of lines 180-185
Validate(d) ==
    IF d.t = "unparseable" THEN Raised                       \* get_json() raises
    ELSE IF ~d.truthy THEN Rejected(MissingData)             \* not data
    ELSE IF d.t \in {"int", "bool"} THEN Raised              \* "question" in 5
    ELSE IF ~d.hasQ THEN Rejected(MissingQuestion)
    ELSE IF d.t # "dict" THEN Raised                         \* no .get on list, str
    ELSE IF d.q.t # "string" THEN Raised                     \* no .strip on int, None
    ELSE LET q == Strip(d.q.s) IN
         IF q = <<>> THEN Rejected(EmptyQuestion)
         ELSE IF TooLong(q) THEN Rejected(QuestionTooLong)
         ELSE Accepted(q)

\* query() up to its call of get_ai_response (line 163)
Query ==
    /\ pc = "query"
    /\ LET v == Validate(data) IN
        /\ question' = v.question
        /\ response' = v.response
        /\ IF v.kind = "ok"
           THEN pc' = "get_ai_response"
           ELSE pc' = "done"
    /\ ran' = ran \cup {"query"}
    /\ UNCHANGED <<now, rate_limits, response_cache, client_ip, data, retry_count,
                   model_idx, answer, ticks, nreq, calls, tried, last, via,
                   cache_at_request, seen, alone>>
    /\ UNCHANGED dbvars
    /\ UNCHANGED uivars
    /\ UNCHANGED racevars

----------------------------------------------------------------------------
(* get_ai_response *)

\* mutant: the key is trimmed but keeps its case
CacheKeyKeepsCase(q) == Strip(q)

\* line 78
CacheKey(q) == Strip(Lower(q))

\* mutant: an entry is served whatever its age
CacheFreshForever(cache, key, t) == key \in DOMAIN cache

\* lines 79-81
CacheFresh(cache, key, t) ==
    key \in DOMAIN cache /\ t - cache[key].timestamp < CACHE_TTL

\* mutant: a fallback string is stored in place of the answer
StoreFallback(cache, key, ans, t) ==
    [k \in DOMAIN cache \cup {key} |->
        IF k = key
        THEN [response |-> CHOOSE f \in FALLBACK_RESPONSES : TRUE, timestamp |-> t]
        ELSE cache[k]]

\* lines 106-109
Store(cache, key, ans, t) ==
    [k \in DOMAIN cache \cup {key} |->
        IF k = key THEN [response |-> ans, timestamp |-> t] ELSE cache[k]]

\* line 103
AnswerOf(text) == Strip(text)

\* mutant: one retry more
ShouldRetryOnceMore(rc) == rc <= MAX_RETRY

\* lines 117 and 128
ShouldRetry(rc) == rc < MAX_RETRY

\* mutant: the pass ends at the first candidate that fails
NoNextCandidate(i) == 0

\* line 97: the candidate tried after candidate i failed, 0 when none is left
NextCandidate(i) == IF i < Len(models_to_try) THEN i + 1 ELSE 0

\* lines 78-95: the cache check, then the start of a pass over the candidates
Lookup ==
    /\ pc = "get_ai_response"
    /\ IF CacheFresh(response_cache, CacheKey(question), now)
       THEN /\ answer' = response_cache[CacheKey(question)].response
            /\ via' = "cache"
            /\ pc' = "return"
            /\ UNCHANGED <<model_idx, tried, last>>
       ELSE /\ pc' = "models"
            /\ model_idx' = 1
            /\ tried' = <<>>
            /\ last' = NoOutcome
            /\ UNCHANGED <<answer, via>>
    /\ ran' = ran \cup {"get_ai_response"}
    /\ UNCHANGED <<now, rate_limits, response_cache, client_ip, data, question,
                   retry_count, response, ticks, nreq, calls, cache_at_request, seen, alone>>
    /\ UNCHANGED dbvars
    /\ UNCHANGED uivars
    /\ UNCHANGED racevars

\* lines 98-114: one candidate is called, with outcome o
CallModel(o) ==
    /\ pc = "models"
    /\ calls' = calls + 1
    /\ tried' = Append(tried, models_to_try[model_idx])
    /\ last' = o
    /\ IF o.kind = "text"
       THEN /\ answer' = AnswerOf(o.text)
            /\ response_cache' = Store(response_cache, CacheKey(question), AnswerOf(o.text), now)
            /\ via' = "model"
            /\ pc' = "return"
            /\ UNCHANGED model_idx
       ELSE /\ IF NextCandidate(model_idx) # 0
               THEN pc' = "models" /\ model_idx' = NextCandidate(model_idx)
               ELSE pc' = "exhausted" /\ UNCHANGED model_idx
            /\ UNCHANGED <<answer, response_cache, via>>
    /\ UNCHANGED <<now, rate_limits, client_ip, data, question, retry_count,
                   response, ticks, nreq, ran, cache_at_request, seen, alone>>
    /\ UNCHANGED dbvars
    /\ UNCHANGED uivars
    /\ UNCHANGED racevars

\* an exception raised in the try block of lines 85-124 outside the calls of
\* the candidates, before the first candidate is called
Unexpected ==
    /\ pc = "models"
    /\ model_idx = 1
    /\ pc' = "except"
    /\ UNCHANGED <<now, rate_limits, response_cache, client_ip, data, question,
                   retry_count, model_idx, answer, response, ticks, nreq, ran,
                   calls, tried, last, via, cache_at_request, seen, alone>>
    /\ UNCHANGED dbvars
    /\ UNCHANGED uivars
    /\ UNCHANGED racevars

\* the end of a failed pass: sleep and recurse, or a fallback
Recover(sleep) ==
    IF ShouldRetry(retry_count)
    THEN /\ now' = now + sleep
         /\ retry_count' = retry_count + 1
         /\ pc' = "get_ai_response"
         /\ UNCHANGED <<answer, via>>
    ELSE /\ \E f \in FALLBACK_RESPONSES : answer' = f
         /\ via' = "fallback"
         /\ pc' = "return"
         /\ UNCHANGED <<now, retry_count>>

\* lines 116-124: every candidate failed
AllFailed ==
    /\ pc = "exhausted"
    /\ Recover(1)
    /\ UNCHANGED <<rate_limits, response_cache, client_ip, data, question,
                   model_idx, response, ticks, nreq, ran, calls, tried, last,
                   cache_at_request, seen, alone>>
    /\ UNCHANGED dbvars
    /\ UNCHANGED uivars
    /\ UNCHANGED racevars

\* lines 126-134: the handler of an unexpected exception
Except ==
    /\ pc = "except"
    /\ Recover(2)
    /\ UNCHANGED <<rate_limits, response_cache, client_ip, data, question,
                   model_idx, response, ticks, nreq, ran, calls, tried, last,
                   cache_at_request, seen, alone>>
    /\ UNCHANGED dbvars
    /\ UNCHANGED uivars
    /\ UNCHANGED racevars

----------------------------------------------------------------------------
(* query(): the answer, lines 160-178 *)

NoAnswerApology == Lit("I'm sorry, I couldn't generate a response at this time.")

\* mutant: the answer is never replaced
IsBlankNever(ans) == FALSE

\* line 166
IsBlank(ans) == ans = <<>> \/ Strip(ans) = <<>>

\* mutant: the apology is sent whatever the resolver returned
SuccessApologyOnly(ans) ==
    [status |-> 200, fields |-> {"answer", "source"},
     answer |-> NoAnswerApology, error |-> <<>>, source |-> Lit("AI")]

\* lines 166-172
Success(ans) ==
    [status |-> 200, fields |-> {"answer", "source"},
     answer |-> IF IsBlank(ans) THEN NoAnswerApology ELSE ans,
     error |-> <<>>, source |-> Lit("AI")]

\* lines 173-178
Failure(msg) ==
    [status |-> 200, fields |-> {"answer", "error"},
     answer |-> Lit("I encountered a technical issue while processing your question. Please try again."),
     error |-> msg, source |-> <<>>]

\* get_ai_response returned: lines 166-172
Respond ==
    /\ pc = "return"
    /\ response' = Success(answer)
    /\ pc' = "done"
    /\ UNCHANGED <<now, rate_limits, response_cache, client_ip, data, question,
                   retry_count, model_idx, answer, ticks, nreq, ran, calls, tried,
                   last, via, cache_at_request, seen, alone>>
    /\ UNCHANGED dbvars
    /\ UNCHANGED uivars
    /\ UNCHANGED racevars

\* an exception with message msg is raised in the try block of lines 161-172
\* before get_ai_response has done anything, and reaches the handler of
\* lines 173-178
RespondFailure(msg) ==
    /\ pc = "get_ai_response"
    /\ retry_count = 0
    /\ response' = Failure(msg)
    /\ pc' = "done"
    /\ UNCHANGED <<now, rate_limits, response_cache, client_ip, data, question,
                   retry_count, model_idx, answer, ticks, nreq, ran, calls, tried,
                   last, via, cache_at_request, seen, alone>>
    /\ UNCHANGED dbvars
    /\ UNCHANGED uivars
    /\ UNCHANGED racevars

----------------------------------------------------------------------------------------------------------------------------------------------
(* The response is sent and the server waits for the next request *)

Finish ==
    /\ pc = "done"
    /\ pc' = "idle"
    /\ client_ip' = "1.2.3.4"
    /\ data' = NoBody
    /\ question' = <<>>
    /\ retry_count' = 0
    /\ model_idx' = 0
    /\ answer' = <<>>
    /\ response' = NoResponse
    /\ ran' = {}
    /\ calls' = 0
    /\ tried' = <<>>
    /\ last' = NoOutcome
    /\ via' = "none"
    /\ cache_at_request' = EmptyMap
    /\ UNCHANGED <<now, rate_limits, response_cache, ticks, nreq, seen, alone>>
    /\ UNCHANGED dbvars
    /\ UNCHANGED uivars
    /\ UNCHANGED racevars

----------------------------------------------------------------------------
(* rate_limiter.wrapper run by several threads: lines 51-72 in the parts
   between which another thread may run *)

\* what the race leaves alone: the request handled one at a time
oneatatime == <<response_cache, pc, client_ip, data, question, retry_count,
                model_idx, answer, response, nreq, ran, calls, tried, last,
                via, cache_at_request, seen, alone, ticks>>

\* lines 55 and 57: which assignment the thread will execute
Branch(rl, c, t) ==
    IF c \notin DOMAIN rl THEN "init"
    ELSE IF WindowExpired(rl, c, t) THEN "reset"
    ELSE "none"

\* lines 56 and 59: a new dict is stored under the key
Assigned(rl, c, t) ==
    [x \in DOMAIN rl \cup {c} |-> IF x = c THEN NewWindow(t) ELSE rl[x]]

\* mutant: the store adds to the count found at the time of the store
WrittenAtomic(rl, c, v) == [rl EXCEPT ![c].count = @ + 1]

\* line 62, the store of the sum computed from the count loaded before
Written(rl, c, v) == [rl EXCEPT ![c].count = v + 1]

\* lines 51-52: a thread starts to handle a request of the client
Arrive(t) ==
    /\ wpc[t] = "idle"
    /\ wreceived < MaxRaceRequests
    /\ wpc' = [wpc EXCEPT ![t] = "test"]
    /\ wtime' = [wtime EXCEPT ![t] = now]
    /\ wreceived' = wreceived + 1
    /\ UNCHANGED <<now, rate_limits, wbranch, wobj, wcount, obj, wadmitted>>
    /\ UNCHANGED oneatatime
    /\ UNCHANGED dbvars
    /\ UNCHANGED uivars

\* lines 55 and 57: the conditions are evaluated
Test(t) ==
    /\ wpc[t] = "test"
    /\ wbranch' = [wbranch EXCEPT ![t] = Branch(rate_limits, RaceClient, wtime[t])]
    /\ wpc' = [wpc EXCEPT ![t] =
                  IF Branch(rate_limits, RaceClient, wtime[t]) = "none"
                  THEN "load" ELSE "assign"]
    /\ UNCHANGED <<now, rate_limits, wtime, wobj, wcount, obj, wreceived, wadmitted>>
    /\ UNCHANGED oneatatime
    /\ UNCHANGED dbvars
    /\ UNCHANGED uivars

\* line 56 or 59: the assignment of the branch taken
Assign(t) ==
    /\ wpc[t] = "assign"
    /\ rate_limits' = Assigned(rate_limits, RaceClient, wtime[t])
    /\ obj' = obj + 1
    /\ wpc' = [wpc EXCEPT ![t] = "load"]
    /\ UNCHANGED <<now, wtime, wbranch, wobj, wcount, wreceived, wadmitted>>
    /\ UNCHANGED oneatatime
    /\ UNCHANGED dbvars
    /\ UNCHANGED uivars

\* line 62, first half: the dict and its count are loaded
Load(t) ==
    /\ wpc[t] = "load"
    /\ wobj' = [wobj EXCEPT ![t] = obj]
    /\ wcount' = [wcount EXCEPT ![t] = rate_limits[RaceClient].count]
    /\ wpc' = [wpc EXCEPT ![t] = "store"]
    /\ UNCHANGED <<now, rate_limits, wtime, wbranch, obj, wreceived, wadmitted>>
    /\ UNCHANGED oneatatime
    /\ UNCHANGED dbvars
    /\ UNCHANGED uivars

\* line 62, second half: the sum is stored into the dict loaded; a dict that
\* was replaced in the table meanwhile is no longer read by anyone
StoreCount(t) ==
    /\ wpc[t] = "store"
    /\ IF wobj[t] = obj
       THEN rate_limits' = Written(rate_limits, RaceClient, wcount[t])
       ELSE rate_limits' = rate_limits
    /\ wpc' = [wpc EXCEPT ![t] = "compare"]
    /\ UNCHANGED <<now, wtime, wbranch, wobj, wcount, obj, wreceived, wadmitted>>
    /\ UNCHANGED oneatatime
    /\ UNCHANGED dbvars
    /\ UNCHANGED uivars

\* lines 65-72: the count in the table is compared with the limit; 429 or
\* query()
Compare(t) ==
    /\ wpc[t] = "compare"
    /\ wadmitted' = IF Exceeded(rate_limits, RaceClient) THEN wadmitted ELSE wadmitted + 1
    /\ wpc' = [wpc EXCEPT ![t] = "idle"]
    /\ wbranch' = [wbranch EXCEPT ![t] = "none"]
    /\ wobj' = [wobj EXCEPT ![t] = 0]
    /\ wcount' = [wcount EXCEPT ![t] = 0]
    /\ wtime' = [wtime EXCEPT ![t] = 0]
    /\ UNCHANGED <<now, rate_limits, obj, wreceived>>
    /\ UNCHANGED oneatatime
    /\ UNCHANGED dbvars
    /\ UNCHANGED uivars

----------------------------------------------------------------------------
(* DatabaseManager: the SQL and the Python the statements are built from *)

\* SQLite's LOWER(): folds the letters of ASCII only
SqlLowerChar(ch) == IF ch = "A" THEN "a" ELSE IF ch = "B" THEN "b" ELSE ch

SqlLower(s) == [i \in 1..Len(s) |-> SqlLowerChar(s[i])]

\* str.split(): the maximal runs of non-blank characters
RECURSIVE Split(_)
Split(s) ==
    LET t == LStrip(s) IN
    IF t = <<>> THEN <<>>
    ELSE LET n == CHOOSE k \in 1..Len(t) :
                      /\ \A i \in 1..k : ~IsSpace(t[i])
                      /\ k = Len(t) \/ IsSpace(t[k + 1])
         IN <<SubSeq(t, 1, n)>> \o Split(SubSeq(t, n + 1, Len(t)))

\* SQLite's LIKE: % is any run of characters, _ any one character, and the
\* letters of ASCII match without regard to case
RECURSIVE Like(_, _)
Like(s, p) ==
    IF p = <<>> THEN s = <<>>
    ELSE IF p[1] = "%" THEN Like(s, Tail(p)) \/ (s # <<>> /\ Like(Tail(s), p))
    ELSE /\ s # <<>>
         /\ p[1] = "_" \/ SqlLowerChar(p[1]) = SqlLowerChar(s[1])
         /\ Like(Tail(s), Tail(p))

\* line 122: f"%{u}%{v}%"
Pattern(u, v) == <<"%">> \o u \o <<"%">> \o v \o <<"%">>

\* lines 83 and 160: question.strip().lower()
CleanedQuestion(q) == Lower(Strip(q))

\* WHERE LOWER(question) = ?  (lines 88, 101, 159)
ExactRows(tbl, cleaned) == { r \in tbl : SqlLower(r.question) = cleaned }

\* lines 86-92: ORDER BY last_accessed DESC LIMIT 1, then fetchone(); the
\* rows fetchone() may return
ExactSelect(tbl, cleaned) ==
    IF ExactRows(tbl, cleaned) = {} THEN {NoRow}
    ELSE { r \in ExactRows(tbl, cleaned) :
             \A o \in ExactRows(tbl, cleaned) : o.last_accessed <= r.last_accessed }

\* mutant: a hit refreshes last_accessed and leaves access_count as it was
TouchedKeepsCount(r, t, n) == [r EXCEPT !.last_accessed = t]

\* SET last_accessed = ?, access_count = ?  with (int(time.time()), n + 1)
Touched(r, t, n) == [r EXCEPT !.last_accessed = t, !.access_count = n + 1]

\* lines 98-102
ExactUpdate(tbl, cleaned, t, result) ==
    { IF r \in ExactRows(tbl, cleaned) THEN Touched(r, t, result.access_count) ELSE r :
        r \in tbl }

\* mutant: questions of three words are matched fuzzily too
FuzzyEligibleFromThree(words) == Len(words) >= FUZZY_MIN_WORDS

\* line 112
FuzzyEligible(words) == Len(words) > FUZZY_MIN_WORDS

\* WHERE question LIKE ? OR question LIKE ?  (lines 116 and 122)
FuzzyRows(tbl, words) ==
    { r \in tbl : \/ Like(r.question, Pattern(words[1], words[2]))
                  \/ Like(r.question, Pattern(words[Len(words) - 1], words[Len(words)])) }

Min(a, b) == IF a <= b THEN a ELSE b

\* lines 114-124: ORDER BY access_count DESC LIMIT 5, then fetchall(); the
\* sets of rows fetchall() may return
FuzzySelect(tbl, words) ==
    { T \in SUBSET FuzzyRows(tbl, words) :
        /\ Cardinality(T) = Min(FUZZY_LIMIT, Cardinality(FuzzyRows(tbl, words)))
        /\ \A r \in T, o \in FuzzyRows(tbl, words) \ T : o.access_count <= r.access_count }

\* line 128: max(fuzzy_results, key=access_count); the rows max() may return
BestMatch(T) == { r \in T : \A o \in T : o.access_count <= r.access_count }

\* mutant: the UPDATE has no WHERE clause
FuzzyUpdateAll(tbl, t, best) ==
    { Touched(r, t, best.access_count) : r \in tbl }

\* lines 133-137: UPDATE ... WHERE question = ?
FuzzyUpdate(tbl, t, best) ==
    { IF r.question = best.question THEN Touched(r, t, best.access_count) ELSE r :
        r \in tbl }

\* lines 158-162: SELECT id ... then fetchone(); the rows it may return
ExistingSelect(tbl, cleaned) ==
    IF ExactRows(tbl, cleaned) = {} THEN {NoRow} ELSE ExactRows(tbl, cleaned)

\* lines 164-178: UPDATE the existing row, or INSERT a new one
StoreWrite(tbl, q, a, t, existing, id) ==
    IF existing # NoRow
    THEN { IF r.id = existing.id
           THEN [r EXCEPT !.answer = a, !.last_accessed = t, !.access_count = @ + 1]
           ELSE r : r \in tbl }
    ELSE tbl \cup {Row(id, q, a, t)}

\* line 200
Cutoff(t, days) == t - days * SECONDS_PER_DAY

\* mutant: a row last accessed exactly at the cutoff is deleted too
ExpiredInclusive(r, cutoff) == r.last_accessed <= cutoff

\* line 203: WHERE last_accessed < ?
Expired(r, cutoff) == r.last_accessed < cutoff

\* lines 201-204
DeleteOld(tbl, cutoff) == { r \in tbl : ~Expired(r, cutoff) }

\* mutant: no buffer is added to the number of rows over max_entries
EvictLimitNoMargin(total, entries) == total - entries

\* line 217: the LIMIT of the subquery
EvictLimit(total, entries) == total - entries + EVICT_MARGIN

\* ORDER BY access_count ASC, last_accessed ASC: r comes before o
Before(r, o) ==
    \/ r.access_count < o.access_count
    \/ r.access_count = o.access_count /\ r.last_accessed < o.last_accessed

\* the subsets of S with k elements
RECURSIVE KSubsets(_, _)
KSubsets(S, k) ==
    IF k = 0 THEN {{}}
    ELSE UNION { { T \cup {x} : T \in KSubsets(S \ {x}, k - 1) } : x \in S }

\* lines 213-215: the sets of rows the subquery may select: the first n rows
\* of the order, rows of equal rank in any order
LeastUsed(tbl, n) ==
    IF n >= Cardinality(tbl) THEN {tbl}
    ELSE LET below(r) == Cardinality({ o \in tbl : Before(o, r) })
             upto(r) == Cardinality({ o \in tbl : ~Before(r, o) })
             sure == { r \in tbl : upto(r) <= n }
             edge == { r \in tbl : below(r) < n /\ n < upto(r) }
             k == n - Cardinality(sure)
         IN IF 2 * k <= Cardinality(edge)
            THEN { sure \cup T : T \in KSubsets(edge, k) }
            ELSE { sure \cup (edge \ T) : T \in KSubsets(edge, Cardinality(edge) - k) }

\* mutant: rows accessed more than once are spared
DeleteLeastUsedSparesPopular(tbl, chosen) ==
    tbl \ { r \in chosen : r.access_count = DEFAULT_ACCESS_COUNT }

\* lines 210-217
DeleteLeastUsed(tbl, chosen) == tbl \ chosen

\* mutant: the writes of the failed call stay in the table
RollbackKeepsWork(before, work) == work

\* the connection as a context manager: an exception raised in its body
\* rolls the open transaction back
Rollback(before, work) == before

----------------------------------------------------------------------------
(* DatabaseManager: get_cached_answer, cache_qa_pair, clean_old_entries *)

\* What the body of a call does when no statement raises: the statements it
\* executes, the number of the statement that writes (0: none does), the
\* table after it, the rows it inserted and the value it returns.
Outcome(stmts, write, work, inserted, ret) ==
    [stmts |-> stmts, write |-> write, work |-> work, inserted |-> inserted, ret |-> ret]

\* lines 143 and 147
NoAnswer == Return("None", <<>>, 0)

\* lines 107 and 141
AnswerIs(a) == Return("str", a, 0)

\* lines 83-143
LookupOutcomes(tbl, q, t) ==
    LET cleaned == CleanedQuestion(q)
        words == Split(cleaned)
    IN UNION {
         IF result # NoRow
         THEN { Outcome(<<"select", "update", "commit">>, 2,
                        ExactUpdate(tbl, cleaned, t, result), 0, AnswerIs(result.answer)) }
         ELSE IF FuzzyEligible(words)
         THEN UNION {
                IF T # {}
                THEN { Outcome(<<"select", "select_like", "update_like", "commit">>, 3,
                               FuzzyUpdate(tbl, t, best), 0, AnswerIs(best.answer)) :
                         best \in BestMatch(T) }
                ELSE { Outcome(<<"select", "select_like">>, 0, tbl, 0, NoAnswer) }
                : T \in FuzzySelect(tbl, words) }
         ELSE { Outcome(<<"select">>, 0, tbl, 0, NoAnswer) }
         : result \in ExactSelect(tbl, cleaned) }

\* lines 155-182
StoreOutcomes(tbl, q, a, t, id) ==
    { Outcome(<<"select", IF existing # NoRow THEN "update" ELSE "insert", "commit">>, 2,
              StoreWrite(tbl, q, a, t, existing, id),
              IF existing # NoRow THEN 0 ELSE 1, Return("True", <<>>, 0)) :
        existing \in ExistingSelect(tbl, CleanedQuestion(q)) }

\* lines 194-223
EvictOutcomes(tbl, days, entries, t) ==
    LET total_count == Cardinality(tbl) IN
    IF total_count <= entries
    THEN { Outcome(<<"count", "delete_old", "commit">>, 2, DeleteOld(tbl, Cutoff(t, days)), 0,
                   Return("int", <<>>, Cardinality(tbl \ DeleteOld(tbl, Cutoff(t, days))))) }
    ELSE { Outcome(<<"count", "delete_least_used", "commit">>, 2,
                   DeleteLeastUsed(tbl, chosen), 0, Return("int", <<>>, Cardinality(chosen))) :
             chosen \in LeastUsed(tbl, EvictLimit(total_count, entries)) }

\* the except clauses: lines 145-147, 184-186, 225-227
Failed(op) ==
    IF op = "lookup" THEN NoAnswer
    ELSE IF op = "store" THEN Return("False", <<>>, 0)
    ELSE Return("int", <<>>, 0)

\* the table statement f of a call finds written and not committed
WorkAt(out, f) == IF out.write # 0 /\ f > out.write THEN out.work ELSE qa_cache

\* A call runs from its first statement to its return, in the thread that
\* opened the connection; statement f raises (0: none does).
Perform(op, q, a, days, entries, f, out) ==
    /\ f <= Len(out.stmts)
    /\ qa_cache' = IF f = 0 THEN out.work ELSE Rollback(qa_cache, WorkAt(out, f))
    /\ next_id' = IF f = 0 THEN next_id + out.inserted ELSE next_id
    /\ db_ret' = IF f = 0 THEN out.ret ELSE Failed(op)
    /\ db_op' = Call(op, q, a, days, entries, f,
                     IF f = 0 THEN out.stmts ELSE SubSeq(out.stmts, 1, f))
    /\ db_before' = qa_cache
    /\ nops' = nops + 1
    /\ UNCHANGED <<now, ticks, connection, connection_lock, tpc, tcall, tsel>>
    /\ UNCHANGED apivars

GetCachedAnswer(q, f) ==
    /\ \E out \in LookupOutcomes(qa_cache, q, now) : Perform("lookup", q, <<>>, 0, 0, f, out)
    /\ UNCHANGED uivars

CacheQaPair(q, a, f) ==
    /\ \E out \in StoreOutcomes(qa_cache, q, a, now, next_id) : Perform("store", q, a, 0, 0, f, out)
    /\ UNCHANGED uivars

CleanOldEntries(days, entries, f) ==
    /\ \E out \in EvictOutcomes(qa_cache, days, entries, now) :
           Perform("evict", <<>>, <<>>, days, entries, f, out)
    /\ UNCHANGED uivars

----------------------------------------------------------------------------
(* DatabaseManager called from several threads, statement by statement *)

\* a thread starts a call
Begin(t, call) ==
    /\ tpc[t] = "idle"
    /\ tpc' = [tpc EXCEPT ![t] = "get_connection"]
    /\ tcall' = [tcall EXCEPT ![t] = call]
    /\ tsel' = [tsel EXCEPT ![t] = NoFetch]
    /\ nops' = nops + 1
    /\ UNCHANGED <<now, ticks, qa_cache, next_id, connection, connection_lock,
                   db_op, db_before, db_ret>>
    /\ UNCHANGED apivars
    /\ UNCHANGED uivars

\* line 62: with self.connection_lock
Acquire(t) ==
    /\ tpc[t] = "get_connection"
    /\ connection_lock = NoThread
    /\ connection_lock' = t
    /\ tpc' = [tpc EXCEPT ![t] = "locked"]
    /\ UNCHANGED <<now, ticks, qa_cache, next_id, connection, tcall, tsel, db_op,
                   db_before, db_ret, nops>>
    /\ UNCHANGED apivars
    /\ UNCHANGED uivars

\* lines 63-67: the connection is opened by the thread that finds none, and
\* returned; the lock is released on the way out of get_connection
ReturnConnection(t) ==
    /\ tpc[t] = "locked"
    /\ connection' = IF connection = NoThread THEN t ELSE connection
    /\ connection_lock' = NoThread
    /\ tpc' = [tpc EXCEPT ![t] = "enter"]
    /\ UNCHANGED <<now, ticks, qa_cache, next_id, tcall, tsel, db_op, db_before,
                   db_ret, nops>>
    /\ UNCHANGED apivars
    /\ UNCHANGED uivars

\* the call returns value
Returns(t, value) ==
    /\ tpc' = [tpc EXCEPT ![t] = "idle"]
    /\ db_op' = tcall[t]
    /\ db_ret' = value
    /\ tcall' = [tcall EXCEPT ![t] = NoCall]
    /\ tsel' = [tsel EXCEPT ![t] = NoFetch]

\* lines 79-80, 152-153, 191-192: conn.cursor(); sqlite3.connect was called
\* with check_same_thread left at True, so in any thread but the one that
\* opened the connection it raises ProgrammingError, which the except clause
\* of the call catches
Enter(t) ==
    /\ tpc[t] = "enter"
    /\ IF connection = t
       THEN /\ tpc' = [tpc EXCEPT ![t] = "select"]
            /\ UNCHANGED <<tcall, tsel, db_op, db_ret>>
       ELSE Returns(t, Failed(tcall[t].op))
    /\ UNCHANGED <<now, ticks, qa_cache, next_id, connection, connection_lock,
                   db_before, nops>>
    /\ UNCHANGED apivars
    /\ UNCHANGED uivars

\* the SELECT statements of the call: lines 86-92 and 114-128, 158-162,
\* 195-196
Select(t) ==
    /\ tpc[t] = "select"
    /\ LET c == tcall[t]
           cleaned == CleanedQuestion(c.question)
           words == Split(cleaned)
       IN IF c.op = "lookup"
          THEN \E result \in ExactSelect(qa_cache, cleaned) :
                 IF result # NoRow
                 THEN /\ tsel' = [tsel EXCEPT ![t] = Fetch(result, 0)]
                      /\ tpc' = [tpc EXCEPT ![t] = "update"]
                      /\ UNCHANGED <<tcall, db_op, db_ret>>
                 ELSE IF FuzzyEligible(words)
                           /\ FuzzyRows(qa_cache, words) # {}
                 THEN \E T \in FuzzySelect(qa_cache, words) : \E best \in BestMatch(T) :
                        /\ tsel' = [tsel EXCEPT ![t] = Fetch(best, 0)]
                        /\ tpc' = [tpc EXCEPT ![t] = "update_like"]
                        /\ UNCHANGED <<tcall, db_op, db_ret>>
                 ELSE Returns(t, NoAnswer)
          ELSE IF c.op = "store"
          THEN \E existing \in ExistingSelect(qa_cache, cleaned) :
                 /\ tsel' = [tsel EXCEPT ![t] = Fetch(existing, 0)]
                 /\ tpc' = [tpc EXCEPT ![t] = "write"]
                 /\ UNCHANGED <<tcall, db_op, db_ret>>
          ELSE /\ tsel' = [tsel EXCEPT ![t] = Fetch(NoRow, Cardinality(qa_cache))]
               /\ tpc' = [tpc EXCEPT ![t] = "delete"]
               /\ UNCHANGED <<tcall, db_op, db_ret>>
    /\ UNCHANGED <<now, ticks, qa_cache, next_id, connection, connection_lock,
                   db_before, nops>>
    /\ UNCHANGED apivars
    /\ UNCHANGED uivars

\* the UPDATE, INSERT or DELETE of the call: lines 98-102, 133-137, 164-178,
\* 199-217
Write(t) ==
    /\ tpc[t] \in {"update", "update_like", "write", "delete"}
    /\ LET c == tcall[t]
           cleaned == CleanedQuestion(c.question)
       IN \/ /\ tpc[t] = "update"
             /\ qa_cache' = ExactUpdate(qa_cache, cleaned, now, tsel[t].row)
             /\ UNCHANGED <<next_id, tsel>>
          \/ /\ tpc[t] = "update_like"
             /\ qa_cache' = FuzzyUpdate(qa_cache, now, tsel[t].row)
             /\ UNCHANGED <<next_id, tsel>>
          \/ /\ tpc[t] = "write"
             /\ qa_cache' = StoreWrite(qa_cache, c.question, c.answer, now, tsel[t].row, next_id)
             /\ next_id' = IF tsel[t].row # NoRow THEN next_id ELSE next_id + 1
             /\ UNCHANGED tsel
          \/ /\ tpc[t] = "delete"
             /\ IF tsel[t].total <= c.entries
                THEN qa_cache' = DeleteOld(qa_cache, Cutoff(now, c.days))
                ELSE \E chosen \in LeastUsed(qa_cache, EvictLimit(tsel[t].total, c.entries)) :
                         qa_cache' = DeleteLeastUsed(qa_cache, chosen)
             /\ tsel' = [tsel EXCEPT ![t] = Fetch(NoRow, Cardinality(qa_cache \ qa_cache'))]
             /\ UNCHANGED next_id
    /\ tpc' = [tpc EXCEPT ![t] = "commit"]
    /\ UNCHANGED <<now, ticks, connection, connection_lock, tcall, db_op, db_before,
                   db_ret, nops>>
    /\ UNCHANGED apivars
    /\ UNCHANGED uivars

\* conn.commit() and the return: lines 104-107, 139-141, 180-182, 222-223
Commit(t) ==
    /\ tpc[t] = "commit"
    /\ Returns(t, IF tcall[t].op = "lookup" THEN AnswerIs(tsel[t].row.answer)
                  ELSE IF tcall[t].op = "store" THEN Return("True", <<>>, 0)
                  ELSE Return("int", <<>>, tsel[t].total))
    /\ UNCHANGED <<now, ticks, qa_cache, next_id, connection, connection_lock,
                   db_before, nops>>
    /\ UNCHANGED apivars
    /\ UNCHANGED uivars

\* lines 69-74: close(); in a thread that did not open the connection
\* connection.close() raises and self.connection stays
Close(t) ==
    /\ tpc[t] = "idle"
    /\ connection_lock = NoThread
    /\ connection' = IF connection = t THEN NoThread ELSE connection
    /\ UNCHANGED <<now, ticks, qa_cache, next_id, connection_lock, tpc, tcall, tsel,
                   db_op, db_before, db_ret, nops>>
    /\ UNCHANGED apivars
    /\ UNCHANGED uivars

----------------------------------------------------------------------------
(* The desktop client: the text area *)

Callback(fn, arg, id) == [fn |-> fn, arg |-> arg, id |-> id]

\* main.py line 132: root.after(1000, self._cache_latest_qa_pair, query)
CacheTimer(q, id) == Callback("_cache_latest_qa_pair", q, id)

\* line 339: root.after(300, self.update_typing_indicator)
AnimationTimer == Callback("update_typing_indicator", <<>>, 0)

NotAnimation(cb) == cb # AnimationTimer

\* root.after_cancel(self.typing_animation_id)
Cancel(queue) == SelectSeq(queue, NotAnimation)

\* lines 291-296
UserMessage(q) == <<"You: ">> \o q \o <<"\n">>

\* lines 364-371
AssistantMessage(m) == <<"Assistant: ">> \o m \o <<"\n", "\n">>

\* line 301
TypingIndicator == <<"Assistant: ", "Typing">>

Greatest(S) == CHOOSE x \in S : \A y \in S : y <= x

Least(S) == CHOOSE x \in S : \A y \in S : x <= y

\* text_area.get("1.0", tk.END): the text and the newline that ends it
TextGet(c) == c \o <<"\n">>

\* the places where "Assistant: Typing" starts
TypingAt(c) == { i \in 1..(Len(c) - 1) : c[i] = "Assistant: " /\ c[i + 1] = "Typing" }

\* lines 326-335: the dots after the last "Assistant: Typing" are replaced;
\* n is typing_dots
Dots(c, n) ==
    LET i == Greatest(TypingAt(c))
        after == SubSeq(c, i + 2, Len(c))
        old == IF n = 0 THEN 0
               ELSE Least({ k \in 0..3 : k = 3 \/ k >= Len(after) \/ after[k + 1] = "\n" })
    IN SubSeq(c, 1, i + 1) \o Rep((n % 4) + 1, ".") \o SubSeq(after, old + 1, Len(after))

\* lines 349-361: the line of the last "Assistant: Typing" is deleted; when it
\* is the last line of the text, the newline before it goes instead of the
\* final newline, which the widget keeps
RemoveTyping(c) ==
    IF TypingAt(c) = {} THEN c
    ELSE LET i == Greatest(TypingAt(c))
             first == 1 + Greatest({ j \in 1..(i - 1) : c[j] = "\n" } \cup {0})
             ends == { j \in i..Len(c) : c[j] = "\n" }
         IN IF ends # {}
            THEN SubSeq(c, 1, first - 1) \o SubSeq(c, Least(ends) + 1, Len(c))
            ELSE SubSeq(c, 1, IF first > 1 THEN first - 2 ELSE 0)

\* main.py line 151: content.split("Assistant: "), and parts[-1]
AssistantAt(c) == { i \in 1..Len(c) : c[i] = "Assistant: " }

LastPart(c) == SubSeq(c, Greatest(AssistantAt(c)) + 1, Len(c))

\* main.py line 153: .split("\n\n")[0]
FirstParagraph(r) ==
    LET breaks == { j \in 1..(Len(r) - 1) : r[j] = "\n" /\ r[j + 1] = "\n" } IN
    IF breaks = {} THEN r ELSE SubSeq(r, 1, Least(breaks) - 1)

\* main.py lines 147-153: last_response
LastResponse(c) == Strip(FirstParagraph(LastPart(TextGet(c))))

\* main.py lines 152 and 156
Cacheable(c) ==
    /\ AssistantAt(c) # {}
    /\ LastResponse(c) # <<>>
    /\ \A i \in 1..Len(LastResponse(c)) : LastResponse(c)[i] # CACHE_MARK

----------------------------------------------------------------------------
(* The desktop client: get_response and its extension *)

\* what is left alone by the steps of the client that make no call of the
\* DatabaseManager
server == <<now, ticks, apivars, dbvars>>

\* lines 213 and 101: the query is the trimmed text of the entry
Typed(text) == Strip(text)

\* lines 214-220 and 102-108: an empty or too long query is refused
Acceptable(q) == q # <<>> /\ Len(q) <= MAX_QUERY_LEN

\* get_response, lines 222-233, for an acceptable query
OriginalGetResponse(q) ==
    IF ~is_connected
    THEN /\ content' = content \o SystemMessage(NOT_CONNECTED)
         /\ UNCHANGED <<is_sending, button_state, entry_state, spc, squery, posts, resets>>
    ELSE /\ is_sending' = TRUE
         /\ button_state' = "disabled"
         /\ entry_state' = "disabled"
         /\ spc' = "start"
         /\ squery' = q
         /\ posts' = 0
         /\ resets' = 0
         /\ content' = content

\* check_connection, lines 159-184, run by the checker thread
ConnectionCheck(ok) ==
    /\ is_connected' = ok
    /\ UNCHANGED <<is_sending, button_state, entry_state, content, typing_dots,
                   after_queue, timers, spc, squery, outcome, nqueries, posts,
                   resets, returned>>
    /\ UNCHANGED server

\* the Send button: its command is get_response as bound at line 117, before
\* main.py replaces the attribute
SendClicked(text) ==
    /\ button_state = "normal"
    /\ nqueries < MaxQueries
    /\ Acceptable(Typed(text))
    /\ OriginalGetResponse(Typed(text))
    /\ nqueries' = nqueries + 1
    /\ UNCHANGED <<is_connected, typing_dots, after_queue, timers, outcome, returned>>
    /\ UNCHANGED server

\* the Return key: on_enter_pressed (lines 199-202) calls self.get_response,
\* which is extended_get_response of main.py, lines 100-134
EnterPressed(text) ==
    /\ ~is_sending
    /\ nqueries < MaxQueries
    /\ Acceptable(Typed(text))
    /\ \E out \in LookupOutcomes(qa_cache, Typed(text), now) :
          /\ Perform("lookup", Typed(text), <<>>, 0, 0, 0, out)
          /\ IF out.ret.kind = "str" /\ out.ret.answer # <<>>
             THEN /\ content' = content \o UserMessage(Typed(text))
                                   \o AssistantMessage(out.ret.answer \o <<"\n", CACHE_MARK>>)
                  /\ UNCHANGED <<is_sending, button_state, entry_state, spc, squery,
                                 posts, resets, timers>>
             ELSE /\ OriginalGetResponse(Typed(text))
                  /\ timers' = timers \cup {CacheTimer(Typed(text), nqueries + 1)}
    /\ nqueries' = nqueries + 1
    /\ UNCHANGED <<is_connected, typing_dots, after_queue, outcome, returned>>

\* clear_chat, lines 382-392
ClearClicked ==
    /\ content' = Welcome
    /\ UNCHANGED <<is_connected, is_sending, button_state, entry_state, typing_dots,
                   after_queue, timers, spc, squery, outcome, nqueries, posts,
                   resets, returned>>
    /\ UNCHANGED server

----------------------------------------------------------------------------
(* The desktop client: send_request, run by its own thread *)

\* lines 238-241
SendStart ==
    /\ spc = "start"
    /\ after_queue' = after_queue \o
            << Callback("add_user_message", squery, 0),
               Callback("add_typing_indicator", <<>>, 0) >>
    /\ spc' = "post"
    /\ UNCHANGED <<is_connected, is_sending, button_state, entry_state, content,
                   typing_dots, timers, squery, outcome, nqueries, posts, resets,
                   returned>>
    /\ UNCHANGED server

\* lines 244-286: requests.post ends with outcome o; the typing indicator is
\* to be removed and message m shown
Post(o, m) ==
    /\ spc = "post"
    /\ posts' = posts + 1
    /\ outcome' = o
    /\ returned' = IF o.kind = "ok" THEN returned \cup {<<squery, o.answer>>} ELSE returned
    /\ after_queue' = after_queue \o
            << Callback("remove_typing_indicator", <<>>, 0),
               Callback("add_assistant_message", m, 0) >>
    /\ spc' = "finally"
    /\ UNCHANGED <<is_connected, is_sending, button_state, entry_state, content,
                   typing_dots, timers, squery, nqueries, resets>>
    /\ UNCHANGED server

\* mutant: the finally clause schedules nothing
FinallyQueueNothing(queue) == queue

\* lines 287-289
FinallyQueue(queue) == Append(queue, Callback("reset_ui_state", <<>>, 0))

Finally ==
    /\ spc = "finally"
    /\ after_queue' = FinallyQueue(after_queue)
    /\ resets' = resets + 1
    /\ spc' = "none"
    /\ UNCHANGED <<is_connected, is_sending, button_state, entry_state, content,
                   typing_dots, timers, squery, outcome, nqueries, posts, returned>>
    /\ UNCHANGED server

----------------------------------------------------------------------------
(* The desktop client: the callbacks the event loop runs *)

\* the time of a timer has come: it runs after the callbacks already due
TimerDue(tm) ==
    /\ tm \in timers
    /\ tm = AnimationTimer => typing_dots < MaxTypingDots
    /\ timers' = timers \ {tm}
    /\ after_queue' = Append(after_queue, tm)
    /\ UNCHANGED <<is_connected, is_sending, button_state, entry_state, content,
                   typing_dots, spc, squery, outcome, nqueries, posts, resets,
                   returned>>
    /\ UNCHANGED server

Due(fn) == after_queue # <<>> /\ Head(after_queue).fn = fn

RunAddUserMessage ==
    /\ Due("add_user_message")
    /\ content' = content \o UserMessage(Head(after_queue).arg)
    /\ after_queue' = Tail(after_queue)
    /\ UNCHANGED <<is_connected, is_sending, button_state, entry_state, typing_dots,
                   timers, spc, squery, outcome, nqueries, posts, resets, returned>>
    /\ UNCHANGED server

\* lines 298-305, and the call of update_typing_indicator with typing_dots = 0
RunAddTypingIndicator ==
    /\ Due("add_typing_indicator")
    /\ content' = Dots(content \o TypingIndicator, 0)
    /\ typing_dots' = 1
    /\ after_queue' = Cancel(Tail(after_queue))
    /\ timers' = timers \cup {AnimationTimer}
    /\ UNCHANGED <<is_connected, is_sending, button_state, entry_state, spc, squery,
                   outcome, nqueries, posts, resets, returned>>
    /\ UNCHANGED server

\* lines 307-341, run by its timer
RunUpdateTypingIndicator ==
    /\ Due("update_typing_indicator")
    /\ after_queue' = Tail(after_queue)
    /\ IF typing_dots # -1 /\ TypingAt(content) # {}
       THEN /\ content' = Dots(content, typing_dots)
            /\ typing_dots' = typing_dots + 1
            /\ timers' = timers \cup {AnimationTimer}
       ELSE UNCHANGED <<content, typing_dots, timers>>
    /\ UNCHANGED <<is_connected, is_sending, button_state, entry_state, spc, squery,
                   outcome, nqueries, posts, resets, returned>>
    /\ UNCHANGED server

\* lines 343-362
RunRemoveTypingIndicator ==
    /\ Due("remove_typing_indicator")
    /\ after_queue' = Cancel(Tail(after_queue))
    /\ timers' = timers \ {AnimationTimer}
    /\ typing_dots' = -1
    /\ content' = RemoveTyping(content)
    /\ UNCHANGED <<is_connected, is_sending, button_state, entry_state, spc, squery,
                   outcome, nqueries, posts, resets, returned>>
    /\ UNCHANGED server

RunAddAssistantMessage ==
    /\ Due("add_assistant_message")
    /\ content' = content \o AssistantMessage(Head(after_queue).arg)
    /\ after_queue' = Tail(after_queue)
    /\ UNCHANGED <<is_connected, is_sending, button_state, entry_state, typing_dots,
                   timers, spc, squery, outcome, nqueries, posts, resets, returned>>
    /\ UNCHANGED server

\* lines 373-380
RunResetUiState ==
    /\ Due("reset_ui_state")
    /\ button_state' = "normal"
    /\ entry_state' = "normal"
    /\ is_sending' = FALSE
    /\ after_queue' = Tail(after_queue)
    /\ UNCHANGED <<is_connected, content, typing_dots, timers, spc, squery, outcome,
                   nqueries, posts, resets, returned>>
    /\ UNCHANGED server

\* main.py lines 139-160
RunCacheLatestQaPair ==
    /\ Due("_cache_latest_qa_pair")
    /\ after_queue' = Tail(after_queue)
    /\ IF Cacheable(content)
       THEN \E out \in StoreOutcomes(qa_cache, Head(after_queue).arg,
                                     LastResponse(content), now, next_id) :
                Perform("store", Head(after_queue).arg, LastResponse(content), 0, 0, 0, out)
       ELSE UNCHANGED server
    /\ UNCHANGED <<is_connected, is_sending, button_state, entry_state, content,
                   typing_dots, timers, spc, squery, outcome, nqueries, posts,
                   resets, returned>>

\* the event loop runs the callback that is due first
RunUiCallback ==
    \/ RunAddUserMessage
    \/ RunAddTypingIndicator
    \/ RunUpdateTypingIndicator
    \/ RunRemoveTypingIndicator
    \/ RunAddAssistantMessage
    \/ RunResetUiState

RunCallback == RunUiCallback \/ RunCacheLatestQaPair

----------------------------------------------------------------------------
(* Specifications *)

\* One client, every kind of body, every outcome of the external calls.
Next ==
    \/ \E d \in TickSteps : Tick(d)
    \/ \E b \in Bodies : nreq < MaxRequests /\ Request("1.2.3.4", b)
    \/ Query
    \/ Lookup
    \/ \E o \in Outcomes : CallModel(o)
    \/ Unexpected
    \/ AllFailed
    \/ Except
    \/ Respond
    \/ \E msg \in ExcMessages : RespondFailure(msg)
    \/ Finish

Spec == Init /\ [][Next]_vars

\* Several clients and enough requests to fill a window; the external models
\* answer.
NextLimiter ==
    \/ \E d \in LimiterTickSteps : Tick(d)
    \/ \E c \in Clients, b \in LimiterBodies : nreq < MaxLimiterRequests /\ Request(c, b)
    \/ Query
    \/ Lookup
    \/ \E o \in LimiterOutcomes : CallModel(o)
    \/ Respond
    \/ Finish

SpecLimiter == Init /\ [][NextLimiter]_vars

\* The answer cache under calls made one at a time: questions that differ in
\* case and in surrounding blanks; no statement fails.
NextCache ==
    \/ \E d \in DbTickSteps : Tick(d)
    \/ \E q \in CacheQuestions :
           nops < MaxDbOps /\ GetCachedAnswer(q, 0)
    \/ \E q \in CacheQuestions, a \in Answers :
           nops < MaxDbOps /\ next_id <= MaxDbRows /\ CacheQaPair(q, a, 0)
    \/ \E days \in AgeDays, entries \in Budgets :
           nops < MaxDbOps /\ CleanOldEntries(days, entries, 0)

SpecCache == Init /\ [][NextCache]_vars

\* The answer cache when statements fail: any statement of any call may raise.
NextFaults ==
    \/ Tick(1)
    \/ \E q \in FaultQuestions, f \in FailPoints :
           nops < MaxDbOps /\ GetCachedAnswer(q, f)
    \/ \E q \in FaultQuestions, a \in Answers, f \in FailPoints :
           nops < MaxDbOps /\ next_id <= MaxDbRows /\ CacheQaPair(q, a, f)
    \/ \E entries \in FaultBudgets, f \in FailPoints :
           nops < MaxDbOps /\ CleanOldEntries(0, entries, f)

SpecFaults == Init /\ [][NextFaults]_vars

\* The answer cache under lookups of questions of three and four words.
NextFuzzy ==
    \/ \E q \in FuzzyQuestions :
           nops < MaxFuzzyOps /\ GetCachedAnswer(q, 0)
    \/ \E q \in StoredQuestions, a \in Answers :
           nops < MaxFuzzyOps /\ next_id <= MaxDbRows /\ CacheQaPair(q, a, 0)

SpecFuzzy == Init /\ [][NextFuzzy]_vars

\* The answer cache with exact hits, fuzzy hits, overwrites and evictions in
\* one run; one stored question has a leading blank and can be stored twice.
NextCounts ==
    \/ Tick(1)
    \/ \E q \in CountLookups :
           nops < MaxFuzzyOps /\ GetCachedAnswer(q, 0)
    \/ \E q \in CountQuestions :
           nops < MaxFuzzyOps /\ next_id <= MaxDbRows /\ CacheQaPair(q, <<"x">>, 0)
    \/ \E entries \in Budgets :
           nops < MaxFuzzyOps /\ CleanOldEntries(0, entries, 0)

SpecCounts == Init /\ [][NextCounts]_vars

\* The answer cache filled beyond max_entries: EVICT_MARGIN rows are stored
\* first, then a few more, some rows are stored again, time passes, and
\* clean_old_entries is called once.
NextEvict ==
    \/ /\ db_op.op # "evict"
       /\ Cardinality(qa_cache) >= EVICT_MARGIN
       /\ ticks < MaxEvictTicks
       /\ Tick(1)
    \/ /\ db_op.op # "evict"
       /\ next_id <= EVICT_MARGIN + MaxExtraRows
       /\ CacheQaPair(BulkQuestion(next_id), <<"x">>, 0)
    \/ \E n \in PopularRows :
           /\ db_op.op # "evict"
           /\ Cardinality(qa_cache) >= EVICT_MARGIN
           /\ \E r \in qa_cache : r.id = n /\ r.access_count = DEFAULT_ACCESS_COUNT
           /\ CacheQaPair(BulkQuestion(n), <<"x">>, 0)
    \/ \E entries \in EvictBudgets :
           /\ db_op.op # "evict"
           /\ Cardinality(qa_cache) >= EVICT_MARGIN
           /\ CleanOldEntries(0, entries, 0)

SpecEvict == Init /\ [][NextEvict]_vars

\* Two threads call one DatabaseManager; their steps interleave.
NextThreads ==
    \/ \E t \in Threads, call \in ThreadCalls : nops < MaxThreadCalls /\ Begin(t, call)
    \/ \E t \in Threads : Acquire(t)
    \/ \E t \in Threads : ReturnConnection(t)
    \/ \E t \in Threads : Enter(t)
    \/ \E t \in Threads : Select(t)
    \/ \E t \in Threads : Write(t)
    \/ \E t \in Threads : Commit(t)
    \/ \E t \in Threads : Close(t)

SpecThreads == Init /\ [][NextThreads]_vars

\* Requests of one client handled by two threads of the server at once.
NextRace ==
    \/ \E d \in RaceTickSteps : Tick(d)
    \/ \E t \in Workers : Arrive(t)
    \/ \E t \in Workers : Test(t)
    \/ \E t \in Workers : Assign(t)
    \/ \E t \in Workers : Load(t)
    \/ \E t \in Workers : StoreCount(t)
    \/ \E t \in Workers : Compare(t)

SpecRace == Init /\ [][NextRace]_vars

\* The desktop client with the answer cache enabled: questions sent with the
\* Return key, answers and a failure of the HTTP call, timers that come due
\* at any time.
NextClient ==
    \/ \E ok \in BOOLEAN : ConnectionCheck(ok)
    \/ \E text \in ClientTexts : EnterPressed(text)
    \/ ClearClicked
    \/ SendStart
    \/ \E o \in CacheOutcomes : \E m \in Shown(o) : Post(o, m)
    \/ Finally
    \/ \E tm \in timers : TimerDue(tm)
    \/ RunCallback

SpecClient == Init /\ [][NextClient]_vars

\* The desktop client without the extension of main.py: questions sent with
\* the Send button, every outcome of the HTTP call.
NextSend ==
    \/ \E ok \in BOOLEAN : ConnectionCheck(ok)
    \/ \E text \in ClientTexts : SendClicked(text)
    \/ ClearClicked
    \/ SendStart
    \/ \E o \in HttpOutcomes : \E m \in Shown(o) : Post(o, m)
    \/ Finally
    \/ \E tm \in timers : TimerDue(tm)
    \/ RunUiCallback

SpecSend == Init /\ [][NextSend]_vars

\* The thread of send_request runs, requests.post returns or raises within
\* its timeout, and the event loop runs the callbacks that are due.
FairSend ==
    /\ SpecSend
    /\ WF_vars(SendStart)
    /\ WF_vars(\E o \in HttpOutcomes : \E m \in Shown(o) : Post(o, m))
    /\ WF_vars(Finally)
    /\ WF_vars(RunUiCallback)


----------------------------------------------------------------------------
(* Rate limiter *)

\* a request is being handled or has just been answered
InRequest == pc # "idle"

\* the request being handled was passed to query()
Admitted == pc = "query" \/ "query" \in ran

\* the request being handled was answered by the wrapper itself
RejectedByLimiter ==
    /\ pc = "done"
    /\ response.status = 429
    /\ response.error = Lit("Rate limit exceeded")

\* C1: one client, requests handled one after another: counting from the
\* request that opens a window, the first 10 requests of the window are passed
\* to the endpoint, and every further request arriving less than 60 seconds
\* after the window's start is rejected with HTTP 429 and the error
\* "Rate limit exceeded".
C1_FirstTenPassRestRejected ==
    InRequest =>
        LET w == seen[client_ip] IN
        /\ w.n >= 1
        /\ now - w.start < 60
        /\ w.n <= 10 => Admitted /\ response.status # 429
        /\ w.n > 10 => RejectedByLimiter /\ ~Admitted

C1_Witness ==
    /\ RejectedByLimiter
    /\ seen[client_ip].n = 11
    /\ seen[client_ip].start = 0
    /\ now = 59

\* the step in which the wrapper handles a request of a client that has an entry
WrapperStepOf(c) == nreq' = nreq + 1 /\ client_ip' = c /\ c \in DOMAIN rate_limits

\* C2: for every client and every previous count (counts above 10 included), a
\* request arriving when now - windowStart >= 60 starts a new window at now, is
\* allowed and leaves count = 1; a request arriving when now - windowStart < 60
\* never changes windowStart.
C2_WindowReset ==
    [][\A c \in Clients :
        WrapperStepOf(c) =>
            /\ now - rate_limits[c].window_start >= 60 =>
                /\ rate_limits'[c] = [count |-> 1, window_start |-> now]
                /\ pc' = "query"
            /\ now - rate_limits[c].window_start < 60 =>
                rate_limits'[c].window_start = rate_limits[c].window_start]_vars

\* twelve requests of one client, eleven of them in the window opened at 0:
\* the twelfth arrives at 60 and finds count = 11
C2_Witness ==
    /\ pc = "query"
    /\ nreq = 12
    /\ now = 60
    /\ DOMAIN rate_limits = {client_ip}
    /\ rate_limits[client_ip] = [count |-> 1, window_start |-> 60]

\* C3: when the rate limiter rejects a request to POST /query, nothing
\* downstream runs for it: the body is not validated, get_ai_response is not
\* invoked, no external model is called and the response cache is unchanged.
C3_RejectedRunsNothing ==
    response.status = 429 =>
        /\ pc = "done"
        /\ ran = {"rate_limiter"}
        /\ calls = 0
        /\ response_cache = cache_at_request

\* a rejected request that carried a valid question, with a non-empty cache
C3_Witness ==
    /\ response.status = 429
    /\ data \in ValidBodies
    /\ response_cache # EmptyMap

----------------------------------------------------------------------------
(* Resolver *)

\* get_ai_response has returned to query()
Returned == pc = "return"

\* C4: for any question of at most 500 characters, every outcome of the
\* external model calls (raise, no text, any text, empty or blank text
\* included) and every cache content built by earlier calls, get_ai_response
\* returns a non-empty string.
C4_ResolveReturnsNonEmpty == Returned => answer # <<>>

InResolver == pc \in {"get_ai_response", "models", "exhausted", "except"}

ResolverStep ==
    \/ Lookup
    \/ \E o \in Outcomes : CallModel(o)
    \/ Unexpected
    \/ AllFailed
    \/ Except

\* what is left of the call: passes first, then the steps of the pass
Rank ==
    IF pc = "get_ai_response" THEN 4
    ELSE IF pc = "models" THEN 4 - model_idx
    ELSE IF pc \in {"exhausted", "except"} THEN 1
    ELSE 0

Measure == (2 - retry_count) * 5 + Rank

\* C5: get_ai_response called with retry_count = 0 terminates without raising
\* when each external call terminates: at most 3 passes over the candidates
\* (retry_count 0, 1, 2), whichever of the two failure paths each pass takes,
\* hence at most 6 external calls; after the pass with retry_count = 2 fails
\* it returns a fallback string instead of retrying.
C5_BoundedRetries ==
    /\ [](/\ retry_count \in {0, 1, 2}
          /\ calls <= 6
          /\ calls <= 2 * (retry_count + 1)
          /\ Measure >= 0
          /\ InResolver => ENABLED ResolverStep)
    /\ [][/\ InResolver => Measure' < Measure
          /\ pc \in {"exhausted", "except"} /\ retry_count = 2 =>
                /\ pc' = "return"
                /\ answer' \in FALLBACK_RESPONSES
                /\ calls' = calls]_vars

\* three failed passes, one of them through the unexpected-exception path
C5_Witness ==
    /\ Returned
    /\ via = "fallback"
    /\ retry_count = 2
    /\ calls = 4
    /\ ticks = 0
    /\ now = 3

\* the cache holds a fresh entry for the trimmed, lower-cased question
HoldsFresh ==
    LET k == Lower(Strip(question)) IN
    /\ k \in DOMAIN response_cache
    /\ now - response_cache[k].timestamp < 3600

\* the step in which get_ai_response checks the cache
CacheCheckStep == pc = "get_ai_response" /\ pc' \notin {"get_ai_response", "done"}

\* C6: if the cache holds an entry for the normalized (trimmed, lower-cased)
\* question with now - timestamp < 3600, get_ai_response returns that entry's
\* answer, calls no external model and does not modify the cache, whatever
\* the case or surrounding whitespace of the question.
C6_CacheHit ==
    /\ [](via = "cache" => calls = 0 /\ response_cache = cache_at_request)
    /\ [][CacheCheckStep /\ HoldsFresh =>
            /\ pc' = "return"
            /\ answer' = response_cache[Lower(Strip(question))].response
            /\ response_cache' = response_cache
            /\ calls' = calls]_vars

\* the question " A " hits the entry stored for "a" 3599 seconds earlier
C6_Witness ==
    /\ Returned
    /\ via = "cache"
    /\ question = <<"A">>
    /\ data = QuestionBody(<<" ", "A", " ">>)
    /\ now - response_cache[<<"a">>].timestamp = 3599

CandidateOrder == <<"gemini-1.5-pro", "gemini-pro">>

\* the step in which a candidate is called
CallStep == calls' = calls + 1

\* C7: within one pass the candidates are tried in the order gemini-1.5-pro,
\* gemini-pro; the first candidate that returns a response with text ends the
\* pass: its trimmed text is stored in the cache under the normalized question
\* with the current time and is returned, and no later candidate is called; a
\* candidate whose call raises is skipped and the next one is tried.
C7_CandidateOrder ==
    /\ [](/\ Len(tried) <= 2
          /\ \A i \in 1..Len(tried) : tried[i] = CandidateOrder[i]
          /\ pc = "models" => Len(tried) = model_idx - 1
          /\ via = "model" =>
                /\ last.kind = "text"
                /\ answer = Strip(last.text)
                /\ response_cache[Lower(Strip(question))] =
                       [response |-> Strip(last.text), timestamp |-> now])
    /\ [][/\ CallStep /\ last'.kind = "text" => pc' = "return" /\ answer' = Strip(last'.text)
          /\ CallStep /\ last'.kind = "raise" /\ tried = <<>> =>
                pc' = "models" /\ model_idx' = 2
          /\ via = "model" /\ pc' # "idle" => calls' = calls /\ tried' = tried]_vars

\* in the second pass gemini-1.5-pro raises and gemini-pro answers " x "
C7_Witness ==
    /\ Returned
    /\ via = "model"
    /\ retry_count = 1
    /\ tried = CandidateOrder
    /\ last.text = <<" ", "x", " ">>
    /\ answer = <<"x">>
    /\ response_cache[Lower(Strip(question))].timestamp = now

\* C8: forced outage: for a valid question with no fresh cache entry, when
\* every external call fails on every pass, get_ai_response returns a member
\* of FALLBACK_RESPONSES and POST /query answers HTTP 200 with that string.
C8_OutageGivesFallback ==
    /\ (Returned \/ pc = "done") /\ "get_ai_response" \in ran
            /\ via # "cache" /\ last.kind # "text" =>
        /\ via = "fallback"
        /\ answer \in FALLBACK_RESPONSES
    /\ pc = "done" /\ via = "fallback" =>
        /\ response.status = 200
        /\ "answer" \in response.fields
        /\ response.answer = answer

C8_Witness ==
    /\ pc = "done"
    /\ via = "fallback"
    /\ calls = 6
    /\ response.status = 200
    /\ response.answer = Lit("There seems to be a technical issue. Please try again later.")

----------------------------------------------------------------------------
(* Endpoint *)

\* query() has answered the request
Answered == pc = "done" /\ "query" \in ran

\* C9: for every admitted request whose input is malformed, missing, empty
\* after trimming or longer than 500 characters after trimming, the response
\* is HTTP 400 with a non-empty error and a non-empty answer, and the resolver
\* is not invoked.
C9_InvalidInputIs400 ==
    Answered /\ data \in InvalidBodies =>
        /\ response.status = 400
        /\ response.error # <<>>
        /\ response.answer # <<>>
        /\ "get_ai_response" \notin ran
        /\ calls = 0

\* C10: for every request whose question passed validation the response is
\* HTTP 200 with a non-empty answer: an empty or blank resolver result is
\* replaced by a fixed apology, an exception is converted to HTTP 200 with an
\* apology and an error field; no exception leaves the handler and no 5xx
\* status is produced.
C10_ValidQuestionIs200 ==
    /\ Answered => response.status \in {200, 400}
    /\ Answered /\ Validate(data).kind = "ok" =>
        /\ response.status = 200
        /\ "answer" \in response.fields
        /\ Strip(response.answer) # <<>>
        /\ "error" \notin response.fields =>
              response.answer =
                  IF Strip(answer) = <<>>
                  THEN Lit("I'm sorry, I couldn't generate a response at this time.")
                  ELSE answer
        /\ "error" \in response.fields =>
              /\ via = "none"
              /\ response.answer =
                  Lit("I encountered a technical issue while processing your question. Please try again.")

\* the model returned " ", the resolver returned "", the endpoint apologises
C10_Witness ==
    /\ Answered
    /\ via = "model"
    /\ last.text = <<" ">>
    /\ answer = <<>>
    /\ response.status = 200
    /\ response.answer = NoAnswerApology

----------------------------------------------------------------------------
(* Answer cache: store, lookup *)

\* the normalized form of a question: trimmed and lower-cased
Normalized(q) == Lower(Strip(q))

\* the rows of a table kept for the question q
RowsFor(tbl, q) == { r \in tbl : Normalized(r.question) = Normalized(q) }

\* the latest call was store(q, a), it returned True, and the table it found
\* had no row for q
StoredFresh ==
    /\ db_op.op = "store"
    /\ db_op.fail = 0
    /\ RowsFor(db_before, db_op.question) = {}

\* the step is a call of op that no failure interrupts
CallStepOf(op) == nops' = nops + 1 /\ db_op'.op = op /\ db_op'.fail = 0

\* C11: round trip: store(q, a) on a table without a row for q, followed by
\* lookup(q') for a q' with the same normalized form as q, returns a.
C11_RoundTrip ==
    [][ ( /\ StoredFresh
          /\ CallStepOf("lookup")
          /\ Normalized(db_op'.question) = Normalized(db_op.question) )
        => db_ret' = AnswerIs(db_op.answer) ]_vars

\* C12: idempotence: store(q, a) called twice on a table without a row for q
\* leaves exactly one row for q, with access_count 2 and answer a.
C12_StoreTwiceOneRow ==
    [][ ( /\ StoredFresh
          /\ CallStepOf("store")
          /\ db_op'.question = db_op.question
          /\ db_op'.answer = db_op.answer )
        => /\ Cardinality(RowsFor(qa_cache', db_op.question)) = 1
           /\ \A r \in RowsFor(qa_cache', db_op.question) :
                  r.access_count = 2 /\ r.answer = db_op.answer ]_vars

\* C13: uniqueness: under calls made one at a time no two rows of qa_cache
\* have the same normalized question.
C13_OneRowPerQuestion ==
    \A r, o \in qa_cache : Normalized(r.question) = Normalized(o.question) => r = o

\* the rows whose stored question, lower-cased by the database, is the
\* normalized form of q
ExactMatches(tbl, q) == { r \in tbl : SqlLower(r.question) = Normalized(q) }

\* C14: exact hit: when a stored question equals the normalized lookup
\* question, lookup returns the answer of the matching row accessed last, that
\* row's access_count is one more than before and its last_accessed is the
\* current time, and no fuzzy statement is executed.
C14_ExactHit ==
    [][ ( /\ CallStepOf("lookup")
          /\ ExactMatches(qa_cache, db_op'.question) # {} )
        => /\ \E r \in ExactMatches(qa_cache, db_op'.question) :
                /\ \A o \in ExactMatches(qa_cache, db_op'.question) :
                       o.last_accessed <= r.last_accessed
                /\ db_ret' = AnswerIs(r.answer)
                /\ [r EXCEPT !.access_count = r.access_count + 1,
                             !.last_accessed = now'] \in qa_cache'
                /\ \A o \in qa_cache' : o.id = r.id => o.access_count = r.access_count + 1
           /\ db_op'.stmts = <<"select", "update", "commit">> ]_vars

\* a question stored in upper case was looked up in lower case a day later
C14_Witness ==
    /\ db_op.op = "lookup" /\ db_op.fail = 0
    /\ db_op.question = <<"a">>
    /\ db_ret = AnswerIs(<<"x">>)
    /\ \E r \in qa_cache :
           /\ r.question = <<"A">>
           /\ r.access_count = 2
           /\ r.created_at = 0
           /\ r.last_accessed = SECONDS_PER_DAY
    /\ now = SECONDS_PER_DAY

\* the words of a string: a word starts where a non-blank character follows
\* the start of the string or a blank
WordCount(s) ==
    Cardinality({ i \in 1..Len(s) : ~IsSpace(s[i]) /\ (i = 1 \/ IsSpace(s[i - 1])) })

\* C15: fuzzy matching is gated on length: a lookup with no exact match whose
\* normalized question has 3 words or fewer returns no answer and leaves every
\* row unchanged.
C15_ShortQuestionNoFuzzy ==
    [][ ( /\ CallStepOf("lookup")
          /\ ExactMatches(qa_cache, db_op'.question) = {}
          /\ WordCount(Normalized(db_op'.question)) <= 3 )
        => /\ db_ret' = NoAnswer
           /\ qa_cache' = qa_cache ]_vars

\* a question of three words, the prefix of a stored question of four, was
\* looked up and missed
C15_Witness ==
    /\ db_op.op = "lookup" /\ db_op.fail = 0
    /\ db_op.question = <<"a", " ", "x", " ", "y">>
    /\ \E r \in qa_cache : r.question = Words("A", "x", "y", "z")
    /\ db_ret = NoAnswer
    /\ qa_cache = db_before

\* the word w occurs in s at position i, letters compared without case
OccursAt(s, w, i) ==
    /\ i + Len(w) - 1 <= Len(s)
    /\ \A k \in 1..Len(w) : LowerChar(s[i + k - 1]) = LowerChar(w[k])

\* s contains the word u and, after it, the word v
ContainsInOrder(s, u, v) ==
    \E i \in 1..Len(s), j \in 1..Len(s) :
        OccursAt(s, u, i) /\ j >= i + Len(u) /\ OccursAt(s, v, j)

\* the n-th word of s
RECURSIVE WordAt(_, _)
WordAt(s, n) ==
    LET t == LStrip(s)
        e == CHOOSE k \in 1..Len(t) :
                 (k = Len(t) \/ IsSpace(t[k + 1])) /\ \A i \in 1..k : ~IsSpace(t[i])
    IN IF n = 1 THEN SubSeq(t, 1, e) ELSE WordAt(SubSeq(t, e + 1, Len(t)), n - 1)

\* the rows whose stored question contains the first two words of q in order,
\* or its last two
SharingWords(tbl, q) ==
    LET c == Normalized(q)
        n == WordCount(c)
    IN { r \in tbl : \/ ContainsInOrder(r.question, WordAt(c, 1), WordAt(c, 2))
                     \/ ContainsInOrder(r.question, WordAt(c, n - 1), WordAt(c, n)) }

\* C16: fuzzy hit: a lookup with no exact match and more than 3 words, when
\* some stored question contains its first two words in order or its last two,
\* returns the answer of the row with the greatest access_count among the
\* rows that do, updates that row (access_count + 1, last_accessed = now) and
\* inserts no row.
C16_FuzzyHit ==
    [][ ( /\ CallStepOf("lookup")
          /\ ExactMatches(qa_cache, db_op'.question) = {}
          /\ WordCount(Normalized(db_op'.question)) > 3
          /\ SharingWords(qa_cache, db_op'.question) # {} )
        => /\ \E r \in SharingWords(qa_cache, db_op'.question) :
                /\ \A o \in SharingWords(qa_cache, db_op'.question) :
                       o.access_count <= r.access_count
                /\ db_ret' = AnswerIs(r.answer)
                /\ [r EXCEPT !.access_count = r.access_count + 1,
                             !.last_accessed = now'] \in qa_cache'
           /\ { r.id : r \in qa_cache' } = { r.id : r \in qa_cache } ]_vars

----------------------------------------------------------------------------
(* Answer cache: failures of the datastore, eviction *)

\* C17: persistence errors never propagate: when a statement of a call fails,
\* lookup returns no answer, store returns False and evict returns 0 (none of
\* them raises), and the table is left as it was before the call.
C17_FailureIsContained ==
    [][ ( nops' = nops + 1 /\ db_op'.fail # 0 )
        => /\ qa_cache' = qa_cache
           /\ db_op'.op = "lookup" => db_ret' = [kind |-> "None", answer |-> <<>>, n |-> 0]
           /\ db_op'.op = "store" => db_ret' = [kind |-> "False", answer |-> <<>>, n |-> 0]
           /\ db_op'.op = "evict" => db_ret' = [kind |-> "int", answer |-> <<>>, n |-> 0] ]_vars

\* the commit of a store that had updated a row failed
C17_Witness ==
    /\ db_op.op = "store"
    /\ db_op.fail = 3
    /\ db_op.stmts = <<"select", "update", "commit">>
    /\ db_op.answer = <<"y">>
    /\ db_ret.kind = "False"
    /\ qa_cache = db_before
    /\ \E r \in qa_cache : r.answer = <<"x">> /\ r.access_count = 1

\* C18: eviction under budget: with at most max_entries rows in the table,
\* evict deletes exactly the rows with last_accessed earlier than
\* now - max_age_days * 86400, leaves the others unchanged and returns the
\* number of rows deleted.
C18_EvictByAge ==
    [][ ( /\ CallStepOf("evict")
          /\ Cardinality(qa_cache) <= db_op'.entries )
        => /\ qa_cache' =
                { r \in qa_cache : r.last_accessed >= now - db_op'.days * 86400 }
           /\ db_ret' = [kind |-> "int", answer |-> <<>>,
                         n |-> Cardinality(qa_cache \ qa_cache')] ]_vars

\* of two rows one was two days old and deleted, the other exactly one day old
\* and kept
C18_Witness ==
    /\ db_op.op = "evict" /\ db_op.fail = 0
    /\ db_op.days = 1 /\ db_op.entries = 1000
    /\ now = 2 * 86400
    /\ db_ret.n = 1
    /\ \E r \in db_before \ qa_cache : r.last_accessed = 0
    /\ \E r \in qa_cache : r.last_accessed = 86400

\* C19: eviction over budget: with total > max_entries rows in the table,
\* evict deletes total - max_entries + 100 rows (all rows if fewer exist), at
\* least total - max_entries of them, and every row it deletes comes no later
\* than every row it keeps in the order by access_count, then last_accessed;
\* age alone deletes no row.
C19_EvictLeastUsed ==
    [][ ( /\ CallStepOf("evict")
          /\ Cardinality(qa_cache) > db_op'.entries )
        => LET total == Cardinality(qa_cache)
               n == total - db_op'.entries + 100
               deleted == qa_cache \ qa_cache'
           IN /\ qa_cache' \subseteq qa_cache
              /\ Cardinality(deleted) = IF n <= total THEN n ELSE total
              /\ Cardinality(deleted) >= total - db_op'.entries
              /\ \A d \in deleted, k \in qa_cache' :
                     \/ d.access_count < k.access_count
                     \/ d.access_count = k.access_count /\ d.last_accessed <= k.last_accessed
       ]_vars

\* 103 rows and max_entries = 102: 101 rows were deleted; a row stored twice
\* and not accessed since survives although it is older than max_age_days,
\* and a row accessed after it was deleted
C19_Witness ==
    /\ db_op.op = "evict" /\ db_op.fail = 0
    /\ db_op.entries = 102 /\ db_op.days = 0
    /\ Cardinality(db_before) = 103
    /\ db_ret.n = 101
    /\ Cardinality(qa_cache) = 2
    /\ \E k \in qa_cache :
           /\ k.access_count = 2
           /\ k.last_accessed < now
           /\ \E d \in db_before \ qa_cache : d.last_accessed > k.last_accessed

----------------------------------------------------------------------------
(* Answer cache: threads *)

\* the thread is executing a statement of its call, or stands between two of
\* them
Executing(t) == tpc[t] \in {"select", "update", "update_like", "write", "delete", "commit"}

\* C20: thread safety: access to the connection is serialized by
\* connection_lock: a thread that executes a statement, or stands between the
\* SELECT and the UPDATE or INSERT of its call, holds the lock, so at most one
\* thread does at a time.
C20_LockSerializesStatements ==
    /\ \A t \in Threads : Executing(t) => connection_lock = t
    /\ \A t, u \in Threads : Executing(t) /\ Executing(u) => t = u

----------------------------------------------------------------------------
(* Answer cache: access_count, size after eviction, frame of lookup *)

\* the row of a table with the id of r
SameRow(tbl, r) == { o \in tbl : o.id = r.id }

\* C21: access_count: every row has access_count >= 1; a row is inserted with
\* access_count 1, a hit or an overwrite raises the access_count of the row by
\* exactly 1, and no call lowers the access_count of a row.
C21_AccessCount ==
    /\ [](\A r \in qa_cache : r.access_count >= 1)
    /\ [][ nops' = nops + 1
           => /\ \A n \in qa_cache' :
                    /\ SameRow(qa_cache, n) = {} => n.access_count = 1
                    /\ \A r \in SameRow(qa_cache, n) :
                           \/ n = r
                           \/ /\ n.access_count = r.access_count + 1
                              /\ db_op'.op \in {"lookup", "store"}
              /\ db_ret'.kind = "str"
                    => \E r \in qa_cache : \E n \in SameRow(qa_cache', r) :
                           /\ r.answer = db_ret'.answer
                           /\ n.access_count = r.access_count + 1
              /\ ( /\ db_op'.op = "store" /\ db_op'.fail = 0
                   /\ Cardinality(qa_cache') = Cardinality(qa_cache) )
                    => \E r \in qa_cache : \E n \in SameRow(qa_cache', r) :
                           /\ n.answer = db_op'.answer
                           /\ n.access_count = r.access_count + 1
                           /\ \A o \in qa_cache : o.id # r.id => o \in qa_cache' ]_vars

\* C26: size after eviction over budget: with total > max_entries rows in the
\* table, exactly max(0, max_entries - 100) rows remain after evict; with
\* max_entries <= 100 no row remains, however often or recently a row was
\* accessed.
C26_EvictRemainder ==
    [][ ( /\ CallStepOf("evict")
          /\ Cardinality(qa_cache) > db_op'.entries )
        => /\ qa_cache' \subseteq qa_cache
           /\ Cardinality(qa_cache') =
                  IF db_op'.entries > 100 THEN db_op'.entries - 100 ELSE 0
           /\ db_op'.entries <= 100 => qa_cache' = {}
           /\ db_ret'.n = Cardinality(qa_cache) - Cardinality(qa_cache')
       ]_vars

\* max_entries = 100 and more than 100 rows: the table is empty after the
\* call, and among the rows deleted are one stored twice and one stored at
\* the time of the call, later than others
C26_Witness ==
    /\ db_op.op = "evict" /\ db_op.fail = 0
    /\ db_op.entries = 100
    /\ Cardinality(db_before) > 100
    /\ qa_cache = {}
    /\ \E r \in db_before : r.access_count > 1
    /\ \E r, o \in db_before : r.last_accessed = now /\ o.last_accessed < now

\* the columns of a row that a lookup never writes
Content(r) ==
    [id |-> r.id, question |-> r.question, answer |-> r.answer,
     created_at |-> r.created_at]

\* C27: frame of lookup: get_cached_answer inserts no row, deletes no row and
\* changes no question, answer or created_at; when it returns no answer the
\* table is unchanged; when it returns an answer, the rows it changed (in
\* access_count and last_accessed only) hold the stored question of one row
\* with that answer, up to the case folding of the database.
C27_LookupFrame ==
    [][ ( nops' = nops + 1 /\ db_op'.op = "lookup" )
        => /\ { Content(r) : r \in qa_cache' } = { Content(r) : r \in qa_cache }
           /\ Cardinality(qa_cache') = Cardinality(qa_cache)
           /\ db_ret'.kind # "str" => qa_cache' = qa_cache
           /\ db_ret'.kind = "str"
                 => \E h \in qa_cache :
                        /\ h.answer = db_ret'.answer
                        /\ h \notin qa_cache'
                        /\ \A r \in qa_cache \ qa_cache' :
                               SqlLower(r.question) = SqlLower(h.question)
       ]_vars

\* a fuzzy hit in a table of two rows with different questions and answers:
\* the row hit was updated, the other row is as it was
C27_Witness ==
    /\ db_op.op = "lookup" /\ db_op.fail = 0
    /\ db_ret.kind = "str"
    /\ "select_like" \in { db_op.stmts[i] : i \in DOMAIN db_op.stmts }
    /\ \E h \in db_before \ qa_cache : \E o \in db_before \cap qa_cache :
           /\ h.answer = db_ret.answer
           /\ o.answer # h.answer
           /\ o.question # h.question

----------------------------------------------------------------------------
(* Resolver cache and rate limiter, continued *)

\* the cache holds an entry for the normalized question that is 3600 seconds
\* old or older
HoldsStale ==
    LET k == Lower(Strip(question)) IN
    /\ k \in DOMAIN response_cache
    /\ now - response_cache[k].timestamp >= 3600

\* C23: a cache entry with now - timestamp >= 3600 is never returned: the
\* cache check then starts a pass over the candidates as on a miss; the entry
\* is overwritten when a candidate answers, and is left as it was when the
\* call ends in a fallback.
C23_StaleEntryNotServed ==
    /\ [](pc = "return" /\ via = "cache" => ~HoldsStale)
    /\ [][ /\ (CacheCheckStep /\ HoldsStale)
                => /\ pc' = "models" /\ model_idx' = 1
                   /\ via' # "cache"
                   /\ response_cache' = response_cache
           /\ (CallStep /\ last'.kind = "text")
                => response_cache'[Lower(Strip(question))] =
                       [response |-> Strip(last'.text), timestamp |-> now]
           /\ via' = "fallback"
                => /\ response_cache' = response_cache
                   /\ response_cache' = cache_at_request ]_vars

\* an entry stored 3600 seconds before the request is still in the cache,
\* unchanged, after three failed passes ended in a fallback
C23_Witness ==
    /\ Returned
    /\ via = "fallback"
    /\ calls = 6
    /\ HoldsStale
    /\ response_cache = cache_at_request
    /\ now - response_cache[Lower(Strip(question))].timestamp = 3602

\* the stale entry was replaced by the text a candidate returned
C23_Overwritten ==
    /\ Returned
    /\ via = "model"
    /\ Lower(Strip(question)) \in DOMAIN cache_at_request
    /\ now - cache_at_request[Lower(Strip(question))].timestamp >= 3600
    /\ response_cache[Lower(Strip(question))].timestamp = now

\* C24: requests handled one at a time: for every client the count of its
\* entry is the number of requests to POST /query received from it since
\* window_start, the requests answered 429 and 400 included; a client without
\* an entry has sent none; only the arrival of a request changes the table.
C24_CountIsRequestsInWindow ==
    /\ [](\A c \in Clients :
             IF c \in DOMAIN rate_limits
             THEN /\ rate_limits[c].count = seen[c].n
                  /\ rate_limits[c].window_start = seen[c].start
                  /\ rate_limits[c].count >= 1
             ELSE seen[c].n = 0)
    /\ [][nreq' = nreq => rate_limits' = rate_limits]_vars
    /\ [][nreq' = nreq + 1 => rate_limits' # rate_limits]_vars

\* the twelfth request of a window is answered 429 and counted
C24_Witness ==
    /\ RejectedByLimiter
    /\ rate_limits[client_ip].count = 12
    /\ seen[client_ip].n = 12

\* a request answered 400 is counted
C24_FailedCounted ==
    /\ pc = "done"
    /\ response.status = 400
    /\ rate_limits[client_ip].count = 3
    /\ seen[client_ip].n = 3

\* C25: fallback strings are never cached: the cache changes only when a
\* candidate returned text, and then only the entry under the normalized
\* question, which becomes that text, trimmed; so no entry holds a fallback
\* string, a call that ends in a fallback leaves the cache as the request
\* found it, and an answer served from the cache is never a fallback string;
\* without a fresh entry the cache check starts a pass over the candidates.
C25_FallbackNeverCached ==
    /\ [](\A k \in DOMAIN response_cache :
             /\ response_cache[k].response \notin FALLBACK_RESPONSES
             /\ \E t \in Texts : response_cache[k].response = Strip(t))
    /\ [](via \in {"fallback", "cache"} => response_cache = cache_at_request)
    /\ [](via = "cache" => answer \notin FALLBACK_RESPONSES)
    /\ [][ /\ response_cache' # response_cache
                => /\ CallStep /\ last'.kind = "text"
                   /\ DOMAIN response_cache' =
                          DOMAIN response_cache \cup {Lower(Strip(question))}
                   /\ \A k \in DOMAIN response_cache' :
                          IF k = Lower(Strip(question))
                          THEN response_cache'[k] =
                                   [response |-> Strip(last'.text), timestamp |-> now]
                          ELSE response_cache'[k] = response_cache[k]
           /\ (CacheCheckStep /\ ~HoldsFresh)
                => pc' = "models" /\ model_idx' = 1 /\ via' # "cache" ]_vars

\* the first request ended in a fallback after two sleeps of one second and
\* left the cache empty; the second request calls gemini-1.5-pro again
C25_Witness ==
    /\ nreq = 2
    /\ ticks = 0
    /\ now = 2
    /\ response_cache = EmptyMap
    /\ retry_count = 0
    /\ pc = "models"
    /\ calls = 1
    /\ tried = <<"gemini-1.5-pro">>

\* C28: isolation of clients: the run that holds all requests and, for each
\* client, the run that holds the requests of that client only, at the same
\* times, agree on the entry of the client and on the decision for each of
\* its requests; a request changes no entry but that of its own client.
C28_ClientIsolation ==
    /\ [](\A c \in Clients :
             /\ c \in DOMAIN rate_limits <=> c \in DOMAIN alone[c]
             /\ c \in DOMAIN rate_limits => rate_limits[c] = alone[c][c])
    /\ [][ nreq' = nreq + 1
            => /\ RejectedByLimiter' <=> alone'[client_ip'][client_ip'].count > 10
               /\ \A c \in Clients \ {client_ip'} :
                      /\ c \in DOMAIN rate_limits' <=> c \in DOMAIN rate_limits
                      /\ c \in DOMAIN rate_limits => rate_limits'[c] = rate_limits[c]
                      /\ alone'[c] = alone[c] ]_vars

\* a client is rejected at its eleventh request of the window although
\* another client has sent a request in between, and that client's window,
\* opened later, holds one request
C28_Witness ==
    /\ RejectedByLimiter
    /\ rate_limits[client_ip].count = 11
    /\ \E c \in DOMAIN rate_limits :
           /\ c # client_ip
           /\ rate_limits[c].count = 1
           /\ rate_limits[c].window_start > rate_limits[client_ip].window_start

----------------------------------------------------------------------------
(* Rate limiter: requests handled by several threads *)

\* the requests that have executed line 62 to its end
Handled ==
    wreceived - Cardinality({ t \in Workers : wpc[t] \in {"test", "assign", "load", "store"} })

\* no thread is inside the wrapper
Quiet == \A t \in Workers : wpc[t] = "idle"

\* C22: rate-limit race: the table is read, reset and incremented without a
\* lock. Under every interleaving the count is at most the number of
\* requests handled, a store writes the count its thread loaded plus one
\* whatever the table holds by then, and a request is admitted exactly when
\* the count it finds at line 65 is at most 10; the witness is the
\* interleaving in which an increment is lost, the count ends below the
\* requests handled and an eleventh request of the window is admitted.
C22_RateLimitRace ==
    /\ [](RaceClient \in DOMAIN rate_limits
             => rate_limits[RaceClient].count <= Handled)
    /\ [](wadmitted <= Handled)
    /\ [][ \A t \in Workers :
             /\ (wpc[t] = "store" /\ wpc'[t] = "compare")
                  => \/ rate_limits' = rate_limits /\ wobj[t] # obj
                     \/ rate_limits'[RaceClient].count = wcount[t] + 1
             /\ (wpc[t] = "compare" /\ wpc'[t] = "idle")
                  => ( wadmitted' = wadmitted + 1
                         <=> rate_limits[RaceClient].count <= 10 ) ]_vars

\* eleven requests arrived within the same second, every one was admitted,
\* and the count is below eleven
C22_Witness ==
    /\ Quiet
    /\ now = 0
    /\ wreceived = 11
    /\ wadmitted = 11
    /\ rate_limits[RaceClient].count < 11

\* the initialisation of the window by one thread discarded the increment
\* of the other
C22_InitialisationLost ==
    /\ Quiet
    /\ now = 0
    /\ wreceived = 2
    /\ obj = 2
    /\ rate_limits[RaceClient].count = 1

----------------------------------------------------------------------------
(* Desktop client *)

\* the entry and the Send button accept input
Enabled == button_state = "normal" /\ entry_state = "normal"

\* C29: once get_response has set is_sending and started send_request,
\* whatever the outcome of the HTTP call, reset_ui_state is scheduled exactly
\* once and runs: is_sending returns to false and the entry and the Send
\* button are enabled again; the request is posted once, never again.
C29_SendAlwaysResets ==
    /\ [](posts <= 1 /\ resets <= 1)
    /\ [](is_sending <=> ~Enabled)
    /\ [](is_sending /\ spc = "none" => posts = 1 /\ resets = 1)
    /\ [][is_sending /\ ~is_sending' => posts = 1 /\ resets = 1 /\ spc = "none"]_vars
    /\ (is_sending ~> (~is_sending /\ Enabled /\ posts = 1 /\ resets = 1))

\* after a request that timed out the entry and the button are enabled again
C29_Witness ==
    /\ ~is_sending
    /\ Enabled
    /\ outcome.kind = "timeout"
    /\ posts = 1
    /\ resets = 1
    /\ spc = "none"
    /\ after_queue = <<>>

\* the client has just stored a pair in the answer cache
ClientStored == db_op.op = "store" /\ db_ret.kind = "True"

\* C30: whenever the client stores a pair (q, a) in the answer cache, a is
\* an answer the backend returned for q, whenever the timer of
\* _cache_latest_qa_pair comes due, and also when get_response returned
\* early because the client is not connected.
C30_CachedIsBackendAnswer ==
    [][ ( nops' = nops + 1 /\ db_op'.op = "store" )
        => <<db_op'.question, db_op'.answer>> \in returned' ]_vars

\* the typing indicator was stored as the answer
C30_TypingCached ==
    /\ ClientStored
    /\ db_op.answer = <<"Typing", ".">>

\* the message of a failed HTTP call was stored as the answer
C30_ErrorCached ==
    /\ ClientStored
    /\ db_op.answer = CANNOT_CONNECT

\* the client was not connected when "b" was submitted, and the answer to
\* "a" was stored as the answer to "b"
C30_EarlierAnswerCached ==
    /\ ClientStored
    /\ db_op.question = <<"b">>
    /\ db_op.answer = <<"x">>
    /\ returned = {<< <<"a">>, <<"x">> >>}
    /\ posts = 1

\* the first paragraph of a longer answer was stored as the answer
C30_TruncatedCached ==
    /\ ClientStored
    /\ db_op.answer = <<"x">>
    /\ returned = {<< db_op.question, <<"x", "\n", "\n", "y">> >>}

\* the answer of the backend was stored
C30_AnswerCached ==
    /\ ClientStored
    /\ <<db_op.question, db_op.answer>> \in returned

====
